---------------------------- MODULE Spec2Model ----------------------------
(***************************************************************************)
(* Model of the escrow pallet (pallets/escrow/src/lib.rs) of hmt-substrate *)
(* on top of the ledger configured in pallets/escrow/src/mock.rs.          *)
(*                                                                         *)
(* Every dispatchable is a pure operator  op(s, args)  from a storage      *)
(* record s to [res, st]: res is "Ok" or the name of the error returned,   *)
(* st the storage the call leaves behind.  An action of the specification  *)
(* runs one dispatchable in a block of its own and stores st.              *)
(***************************************************************************)
EXTENDS Integers, Sequences, FiniteSets, TLC

VARIABLES
    Counter,          \* decl_storage Counter: next escrow id
    FactoryCounter,   \* decl_storage FactoryCounter: next factory id
    Escrows,          \* decl_storage Escrows: id -> EscrowInfo (DOMAIN = stored keys)
    EscrowFactory,    \* decl_storage EscrowFactory: factory id -> Vec<EscrowId>
    FinalResults,     \* decl_storage FinalResults: id -> ResultInfo
    TrustedHandlers,  \* decl_storage TrustedHandlers: the (id, account) keys stored (value true)
    HandlersCount,    \* decl_storage HandlersCount: id -> u32
    Balances,         \* free balance of every account (T::Currency)
    Now,              \* pallet_timestamp: the current moment
    HMTokenBalances,  \* hmtoken decl_storage Balances: account -> T::Balance
    Storage           \* kvstore decl_storage Storage: the (account, key) pairs stored -> value

vars == <<Counter, FactoryCounter, Escrows, EscrowFactory, FinalResults,
          TrustedHandlers, HandlersCount, Balances, Now, HMTokenBalances,
          Storage>>

---------------------------------------------------------------------------
(* Bounds of the model *)

\* SpecFactory creates escrows with the ids below MaxFactoryIds, enough to
\* fill a factory, and lets the clock advance MaxFactoryTicks times
MaxFactoryIds == 22
MaxFactoryTicks == 1

\* create is called while Counter < MaxEscrows (specification Spec)
MaxEscrows == 1
\* create is called while Counter < MaxIds (specification SpecIds)
MaxIds == 2
\* create_factory is called while FactoryCounter < MaxFactories
MaxFactories == 1
\* the largest value of the Balance type (u64::MAX in the mock, scaled down)
BalanceMax == 65535
\* a custodial account is funded only up to this balance
MaxCustody == 100
\* T::HandlersLimit (no value for it under src/)
HandlersLimit == 4

(* Program constants *)

StandardDuration == 1000
StringLimit == 10
BulkAccountsLimit == 10
BulkBalanceLimit == 999
ExistentialDeposit == 0
MAX_ESCROWS_PER_FACTORY == 20
GenesisBalance == 1000
FundAmount == 100
PercentMax == 100
U8Max == 255

\* the configuration of the hmtoken and kvstore pallets
total_supply == 1000
initial_account == 1
HMTokenBulkAccountsLimit == 10
HMTokenBulkBalanceLimit == 999
KVStoreStringLimit == 50

---------------------------------------------------------------------------
(* Values *)

Min(a, b) == IF a < b THEN a ELSE b

\* Saturating::saturating_add / saturating_sub on Balance
saturating_add(a, b) == Min(a + b, BalanceMax)
saturating_sub(a, b) == IF a < b THEN 0 ELSE a - b

\* u8::saturating_add on the deconstructed Percent values
u8_saturating_add(a, b) == Min(a + b, U8Max)

\* mul_floor rounding up instead of down
mul_ceil(p, a) == (a * p + PercentMax - 1) \div PercentMax

\* Percent::mul_floor
mul_floor(p, a) == (a * p) \div PercentMax

\* a byte string of n bytes b
Bytes(b, n) == [i \in 1..n |-> b]

\* the principals of the model: 1 is the funded account of the genesis
\* block, 3 and 4 the oracles, 5, 6, 7 recipients, 8 an outsider
Principals == {1, 3, 4, 5, 6, 7, 8}

\* the escrow ids of the model; MaxIds itself is never created
IdSpace == 0..MaxIds
FactoryIdSpace == 0..MaxFactories

\* the width in bytes of T::AccountId (u64 in the mock runtime), of the
\* prefix (b"modl", MODULE_ID) of a sub-account, and of an EscrowId (u128)
AccountIdBytes == 8
SubAccountPrefixBytes == 12
EscrowIdBytes == 16

\* the number of values of the id bytes that fit into an AccountId behind the
\* prefix: into_sub_account encodes (b"modl", MODULE_ID, id) and decodes an
\* AccountId from the first AccountIdBytes bytes (zeros are appended when
\* the encoding is shorter)
SubIdModulus ==
    IF AccountIdBytes <= SubAccountPrefixBytes THEN 1
    ELSE 256 ^ Min(AccountIdBytes - SubAccountPrefixBytes, EscrowIdBytes)

\* MODULE_ID.into_sub_account(id); SubAccountBase stands for the account the
\* bytes of the prefix decode to
SubAccountBase == 100
account_id_for(id) == SubAccountBase + (id % SubIdModulus)

Accounts == Principals \cup {account_id_for(i) : i \in IdSpace}

\* the storage of the runtime at the start of a block, as one record.  Events
\* are the events of the block (frame_system clears them when a block starts,
\* and every call of the model runs in a block of its own): what a call
\* deposits is read from the storage it returns, and is not carried over.
State == [Counter |-> Counter, FactoryCounter |-> FactoryCounter,
          Escrows |-> Escrows, EscrowFactory |-> EscrowFactory,
          FinalResults |-> FinalResults, TrustedHandlers |-> TrustedHandlers,
          HandlersCount |-> HandlersCount, Balances |-> Balances,
          Now |-> Now, Events |-> <<>>]

\* the ids a call names: those created so far and the next one, which was
\* never created
CallIds == 0..Counter

\* StorageMap::insert and StorageMap::remove
Insert(f, k, v) == [x \in (DOMAIN f) \cup {k} |-> IF x = k THEN v ELSE f[x]]
Remove(f, k) == [x \in (DOMAIN f) \ {k} |-> f[x]]

Ok(s) == [res |-> "Ok", st |-> s]
Err(e, s) == [res |-> e, st |-> s]

\* deposit_event
deposit_event(s, e) == [s EXCEPT !.Events = Append(@, e)]

---------------------------------------------------------------------------
(* The ledger: pallet_balances::Module<Test> as T::Currency *)

\* Currency::free_balance
free_balance(s, who) == s.Balances[who]

\* Currency::transfer that leaves the balance of the payer as it is
Currency_transfer_minting(s, from, to, value) ==
    IF value = 0 \/ from = to THEN Ok(s)
    ELSE IF s.Balances[from] < value THEN Err("InsufficientBalance", s)
    ELSE IF s.Balances[to] + value > BalanceMax THEN Err("Overflow", s)
    ELSE Ok([s EXCEPT !.Balances = [@ EXCEPT ![to] = @ + value]])

\* Currency::transfer(from, to, value, AllowDeath)
Currency_transfer(s, from, to, value) ==
    IF value = 0 \/ from = to THEN Ok(s)
    ELSE IF s.Balances[from] < value THEN Err("InsufficientBalance", s)
    ELSE IF s.Balances[to] + value > BalanceMax THEN Err("Overflow", s)
    ELSE IF s.Balances[to] + value < ExistentialDeposit
        THEN Err("ExistentialDeposit", s)
    ELSE Ok([s EXCEPT !.Balances = [@ EXCEPT ![from] = @ - value,
                                             ![to] = @ + value]])

---------------------------------------------------------------------------
(* Helpers of the pallet *)

\* with_transaction_result committing the writes of a failed closure
without_rollback(s, r) == r

\* with_transaction_result: commit the closure's storage on Ok, roll back on Err
with_transaction_result(s, r) ==
    IF r.res = "Ok" THEN r ELSE Err(r.res, s)

\* the storage getter is_trusted_handler
is_trusted_handler(s, id, who) == <<id, who>> \in s.TrustedHandlers

\* the storage getter handlers_count (0 when nothing is stored)
handlers_count(s, id) ==
    IF id \in DOMAIN s.HandlersCount THEN s.HandlersCount[id] ELSE 0

\* do_add_trusted_handlers inserting nothing
do_add_no_handlers(s, id, trusted) == s

\* do_add_trusted_handlers
do_add_trusted_handlers(s, id, trusted) ==
    [s EXCEPT !.TrustedHandlers =
        @ \cup {<<id, trusted[i]>> : i \in 1..Len(trusted)}]

\* ensure_trusted accepting every account
ensure_trusted_anyone(s, who, id) == "Ok"

\* ensure_trusted accepting a handler of any escrow
ensure_trusted_any_escrow(s, who, id) ==
    IF \E k \in s.TrustedHandlers : k[2] = who THEN "Ok"
    ELSE "NonTrustedAccount"

\* ensure_trusted: the error, or "Ok"
ensure_trusted(s, who, id) ==
    IF is_trusted_handler(s, id, who) THEN "Ok" ELSE "NonTrustedAccount"

\* get_balance
get_balance(s, escrow) == free_balance(s, escrow.account)

IsOpenStatus(status) == status \in {"Pending", "Partial"}

\* get_open_escrow: the error, or "Ok" (the escrow is then s.Escrows[id])
get_open_escrow(s, id) ==
    IF id \notin DOMAIN s.Escrows THEN "MissingEscrow"
    ELSE IF ~(s.Escrows[id].end_time > s.Now) THEN "EscrowExpired"
    ELSE IF ~IsOpenStatus(s.Escrows[id].status) THEN "EscrowClosed"
    ELSE "Ok"

RECURSIVE SatSum(_)
\* the loops "sum = sum.saturating_add(*a)"
SatSum(values) ==
    IF values = <<>> THEN 0
    ELSE saturating_add(SatSum(SubSeq(values, 1, Len(values) - 1)),
                        values[Len(values)])

\* the fee and the net amount of one payout amount (the closure of the map)
reputation_fee(escrow, amount) == mul_floor(escrow.reputation_oracle_stake, amount)
recording_fee(escrow, amount) == mul_floor(escrow.recording_oracle_stake, amount)
\* amount_without_fee deducting the reputation fee only
amount_without_reputation_fee(escrow, amount) ==
    saturating_sub(amount, reputation_fee(escrow, amount))

amount_without_fee(escrow, amount) ==
    saturating_sub(saturating_sub(amount, reputation_fee(escrow, amount)),
                   recording_fee(escrow, amount))

\* finalize_payouts
finalize_payouts(escrow, amounts) ==
    [reputation_fee_total |->
        SatSum([i \in 1..Len(amounts) |-> reputation_fee(escrow, amounts[i])]),
     recording_fee_total |->
        SatSum([i \in 1..Len(amounts) |-> recording_fee(escrow, amounts[i])]),
     final_amounts |->
        [i \in 1..Len(amounts) |-> amount_without_fee(escrow, amounts[i])]]

RECURSIVE TransferEach(_, _, _, _, _)
\* the loop of do_transfer_bulk over zip(tos, values), from pair i on:
\* stops at the first failing transfer
TransferEach(s, from, tos, values, i) ==
    IF i > Min(Len(tos), Len(values)) THEN Ok(s)
    ELSE LET t == Currency_transfer(s, from, tos[i], values[i])
         IN IF t.res # "Ok" THEN t
            ELSE TransferEach(t.st, from, tos, values, i + 1)

\* do_transfer_bulk taking back the transfers made before one that fails
do_transfer_bulk_reverting(s, from, tos, values) ==
    IF ~(Len(tos) <= BulkAccountsLimit) THEN Err("TooManyTos", s)
    ELSE IF ~(Len(tos) = Len(values)) THEN Err("MismatchBulkTransfer", s)
    ELSE IF ~(SatSum(values) <= BulkBalanceLimit) THEN Err("TransferTooBig", s)
    ELSE IF TransferEach(s, from, tos, values, 1).res # "Ok"
        THEN Err(TransferEach(s, from, tos, values, 1).res, s)
    ELSE TransferEach(s, from, tos, values, 1)

\* do_transfer_bulk comparing the lengths before the number of recipients
do_transfer_bulk_mismatch_first(s, from, tos, values) ==
    IF ~(Len(tos) = Len(values)) THEN Err("MismatchBulkTransfer", s)
    ELSE IF ~(Len(tos) <= BulkAccountsLimit) THEN Err("TooManyTos", s)
    ELSE IF ~(SatSum(values) <= BulkBalanceLimit) THEN Err("TransferTooBig", s)
    ELSE TransferEach(s, from, tos, values, 1)

\* do_transfer_bulk
do_transfer_bulk(s, from, tos, values) ==
    IF ~(Len(tos) <= BulkAccountsLimit) THEN Err("TooManyTos", s)
    ELSE IF ~(Len(tos) = Len(values)) THEN Err("MismatchBulkTransfer", s)
    ELSE IF ~(SatSum(values) <= BulkBalanceLimit) THEN Err("TransferTooBig", s)
    ELSE TransferEach(s, from, tos, values, 1)

RECURSIVE binary_search(_, _, _, _)
\* slice::binary_search on seq[lo..hi]: the index of x, or 0 when it is not found
binary_search(seq, lo, hi, x) ==
    IF lo > hi THEN 0
    ELSE LET mid == (lo + hi) \div 2
         IN IF seq[mid] = x THEN mid
            ELSE IF seq[mid] < x THEN binary_search(seq, mid + 1, hi, x)
            ELSE binary_search(seq, lo, mid - 1, x)

\* Vec::remove that removes the first element whatever the index
VecRemoveFirst(seq, index) == Tail(seq)

\* Vec::remove that leaves the vector as it is
VecKeep(seq, index) == seq

\* Vec::remove(index)
VecRemove(seq, index) ==
    [i \in 1..(Len(seq) - 1) |-> IF i < index THEN seq[i] ELSE seq[i + 1]]

---------------------------------------------------------------------------
(* The dispatchables of the pallet: s is the storage before the call *)

\* create_factory
create_factory(s, who) ==
    LET id == s.FactoryCounter
        s1 == [s EXCEPT !.FactoryCounter = id + 1,
                        !.EscrowFactory = Insert(@, id, <<>>)]
    IN Ok(deposit_event(s1, <<"FactoryCreated", id, who>>))

\* create leaving Counter as it is
keep_counter(s) == s

\* "Counter::set(id + 1)" of create
bump_counter(s) == [s EXCEPT !.Counter = @ + 1]

\* create_checks without the stake check
create_checks_no_stake(s, manifest_url, manifest_hash, factory_id, reputation_oracle_stake, recording_oracle_stake) ==
    IF ~(Len(manifest_url) <= StringLimit) THEN "StringSize"
    ELSE IF ~(Len(manifest_hash) <= StringLimit) THEN "StringSize"
    ELSE IF factory_id \notin DOMAIN s.EscrowFactory THEN "FactoryDoesNotExist"
    ELSE IF ~(Len(s.EscrowFactory[factory_id]) <= MAX_ESCROWS_PER_FACTORY)
        THEN "FactoryOutOfBounds"
    ELSE "Ok"

\* create_checks without the length check of manifest_hash
create_checks_no_hash(s, manifest_url, manifest_hash, factory_id, reputation_oracle_stake, recording_oracle_stake) ==
    IF ~(Len(manifest_url) <= StringLimit) THEN "StringSize"
    ELSE IF factory_id \notin DOMAIN s.EscrowFactory THEN "FactoryDoesNotExist"
    ELSE IF ~(Len(s.EscrowFactory[factory_id]) <= MAX_ESCROWS_PER_FACTORY)
        THEN "FactoryOutOfBounds"
    ELSE IF ~(u8_saturating_add(reputation_oracle_stake, recording_oracle_stake)
                <= PercentMax)
        THEN "StakeOutOfBounds"
    ELSE "Ok"

\* the ensure! checks of create, in their order: the error, or "Ok"
create_checks(s, manifest_url, manifest_hash, factory_id, reputation_oracle_stake, recording_oracle_stake) ==
    IF ~(Len(manifest_url) <= StringLimit) THEN "StringSize"
    ELSE IF ~(Len(manifest_hash) <= StringLimit) THEN "StringSize"
    ELSE IF factory_id \notin DOMAIN s.EscrowFactory THEN "FactoryDoesNotExist"
    ELSE IF ~(Len(s.EscrowFactory[factory_id]) <= MAX_ESCROWS_PER_FACTORY)
        THEN "FactoryOutOfBounds"
    ELSE IF ~(u8_saturating_add(reputation_oracle_stake, recording_oracle_stake)
                <= PercentMax)
        THEN "StakeOutOfBounds"
    ELSE "Ok"

\* create
create(s, who, manifest_url, manifest_hash, factory_id, reputation_oracle, recording_oracle, reputation_oracle_stake, recording_oracle_stake) ==
    LET check == create_checks(s, manifest_url, manifest_hash, factory_id,
                               reputation_oracle_stake, recording_oracle_stake)
        end_time == s.Now + StandardDuration
        id == s.Counter
        trusted == <<recording_oracle, reputation_oracle, who>>
        account == account_id_for(id)
        new_escrow == [status |-> "Pending",
                       end_time |-> end_time,
                       manifest_url |-> manifest_url,
                       manifest_hash |-> manifest_hash,
                       reputation_oracle |-> reputation_oracle,
                       recording_oracle |-> recording_oracle,
                       reputation_oracle_stake |-> reputation_oracle_stake,
                       recording_oracle_stake |-> recording_oracle_stake,
                       canceller |-> who,
                       account |-> account,
                       factory |-> factory_id]
        s1 == [bump_counter(s) EXCEPT
                        !.HandlersCount = Insert(@, id, Len(trusted))]
        s2 == do_add_trusted_handlers(s1, id, trusted)
        s3 == [s2 EXCEPT !.Escrows = Insert(@, id, new_escrow),
                         !.EscrowFactory[factory_id] = Append(@, id)]
    IN IF check # "Ok" THEN Err(check, s)
       ELSE Ok(deposit_event(s3,
                <<"Pending", id, who, manifest_url, manifest_hash, account>>))

\* add_trusted_handlers without the check against HandlersLimit
add_trusted_handlers_unlimited(s, who, id, handlers) ==
    LET count == handlers_count(s, id)
        new_count == count + Len(handlers)
        s1 == do_add_trusted_handlers(s, id, handlers)
    IN IF ensure_trusted(s, who, id) # "Ok" THEN Err(ensure_trusted(s, who, id), s)
       ELSE Ok([s1 EXCEPT !.HandlersCount = Insert(@, id, new_count)])

\* add_trusted_handlers
add_trusted_handlers(s, who, id, handlers) ==
    LET count == handlers_count(s, id)
        new_count == count + Len(handlers)
        s1 == do_add_trusted_handlers(s, id, handlers)
    IN IF ensure_trusted(s, who, id) # "Ok" THEN Err(ensure_trusted(s, who, id), s)
       ELSE IF ~(new_count <= HandlersLimit) THEN Err("TooManyHandlers", s)
       ELSE Ok([s1 EXCEPT !.HandlersCount = Insert(@, id, new_count)])

\* abort accepting an escrow in every status
abort_any_status(status) == TRUE

\* the status check of abort
abort_status_ok(status) == status \notin {"Complete", "Paid"}

\* abort_refund_and_clear without the removal of the final results
abort_keeping_results(s, id) ==
    LET escrow == s.Escrows[id]
        balance == get_balance(s, escrow)
        t == IF balance > 0
             THEN Currency_transfer(s, escrow.account, escrow.canceller, balance)
             ELSE Ok(s)
        s1 == [t.st EXCEPT !.Escrows = Remove(@, id),
                           !.TrustedHandlers = {k \in @ : k[1] # id},
                           !.HandlersCount = Remove(@, id)]
        escrows == IF escrow.factory \in DOMAIN s1.EscrowFactory
                   THEN s1.EscrowFactory[escrow.factory] ELSE <<>>
        s2 == [s1 EXCEPT !.EscrowFactory = Remove(@, escrow.factory)]
        index == binary_search(escrows, 1, Len(escrows), id)
    IN IF t.res # "Ok" THEN t
       ELSE IF index = 0 THEN Err("MissingEscrow", s2)
       ELSE Ok([s2 EXCEPT !.EscrowFactory =
                    Insert(@, escrow.factory, VecRemove(escrows, index))])

\* abort_refund_and_clear without the removal of the trust entries
abort_keeping_trust(s, id) ==
    LET escrow == s.Escrows[id]
        balance == get_balance(s, escrow)
        t == IF balance > 0
             THEN Currency_transfer(s, escrow.account, escrow.canceller, balance)
             ELSE Ok(s)
        s1 == [t.st EXCEPT !.Escrows = Remove(@, id),
                           !.FinalResults = Remove(@, id),
                           !.HandlersCount = Remove(@, id)]
        \* EscrowFactory::take: the stored list (empty when there is none)
        escrows == IF escrow.factory \in DOMAIN s1.EscrowFactory
                   THEN s1.EscrowFactory[escrow.factory] ELSE <<>>
        s2 == [s1 EXCEPT !.EscrowFactory = Remove(@, escrow.factory)]
        index == binary_search(escrows, 1, Len(escrows), id)
    IN IF t.res # "Ok" THEN t
       ELSE IF index = 0 THEN Err("MissingEscrow", s2)
       ELSE Ok([s2 EXCEPT !.EscrowFactory =
                    Insert(@, escrow.factory, VecRemove(escrows, index))])

\* abort, from the refund on (the escrow exists, the caller is trusted, the
\* status allows it)
abort_refund_and_clear(s, id) ==
    LET escrow == s.Escrows[id]
        balance == get_balance(s, escrow)
        t == IF balance > 0
             THEN Currency_transfer(s, escrow.account, escrow.canceller, balance)
             ELSE Ok(s)
        s1 == [t.st EXCEPT !.Escrows = Remove(@, id),
                           !.FinalResults = Remove(@, id),
                           !.TrustedHandlers = {k \in @ : k[1] # id},
                           !.HandlersCount = Remove(@, id)]
        \* EscrowFactory::take: the stored list (empty when there is none)
        escrows == IF escrow.factory \in DOMAIN s1.EscrowFactory
                   THEN s1.EscrowFactory[escrow.factory] ELSE <<>>
        s2 == [s1 EXCEPT !.EscrowFactory = Remove(@, escrow.factory)]
        index == binary_search(escrows, 1, Len(escrows), id)
    IN IF t.res # "Ok" THEN t
       ELSE IF index = 0 THEN Err("MissingEscrow", s2)
       ELSE Ok([s2 EXCEPT !.EscrowFactory =
                    Insert(@, escrow.factory, VecRemove(escrows, index))])

\* abort
abort(s, who, id) ==
    IF id \notin DOMAIN s.Escrows THEN Err("MissingEscrow", s)
    ELSE IF ensure_trusted(s, who, id) # "Ok"
        THEN Err(ensure_trusted(s, who, id), s)
    ELSE IF ~abort_status_ok(s.Escrows[id].status) THEN Err("EscrowClosed", s)
    ELSE abort_refund_and_clear(s, id)

\* cancel accepting an escrow in every status
cancel_any_status(status) == TRUE

\* the status check of cancel
cancel_status_ok(status) == status \in {"Pending", "Partial"}

\* cancel refusing an escrow past its end_time
cancel_unexpired(s, who, id) ==
    IF id \notin DOMAIN s.Escrows THEN Err("MissingEscrow", s)
    ELSE IF ensure_trusted(s, who, id) # "Ok"
        THEN Err(ensure_trusted(s, who, id), s)
    ELSE IF ~(s.Escrows[id].end_time > s.Now) THEN Err("EscrowExpired", s)
    ELSE IF ~cancel_status_ok(s.Escrows[id].status) THEN Err("EscrowClosed", s)
    ELSE LET escrow == s.Escrows[id]
             balance == get_balance(s, escrow)
             t == Currency_transfer(s, escrow.account, escrow.canceller, balance)
         IN IF ~(balance > 0) THEN Err("OutOfFunds", s)
            ELSE IF t.res # "Ok" THEN t
            ELSE Ok([t.st EXCEPT !.Escrows[id].status = "Cancelled"])

\* cancel
cancel(s, who, id) ==
    IF id \notin DOMAIN s.Escrows THEN Err("MissingEscrow", s)
    ELSE IF ensure_trusted(s, who, id) # "Ok"
        THEN Err(ensure_trusted(s, who, id), s)
    ELSE IF ~cancel_status_ok(s.Escrows[id].status) THEN Err("EscrowClosed", s)
    ELSE LET escrow == s.Escrows[id]
             balance == get_balance(s, escrow)
             t == Currency_transfer(s, escrow.account, escrow.canceller, balance)
         IN IF ~(balance > 0) THEN Err("OutOfFunds", s)
            ELSE IF t.res # "Ok" THEN t
            ELSE Ok([t.st EXCEPT !.Escrows[id].status = "Cancelled"])

\* complete checking the status before the expiry
complete_status_first(s, who, id) ==
    IF id \notin DOMAIN s.Escrows THEN Err("MissingEscrow", s)
    ELSE IF ensure_trusted(s, who, id) # "Ok"
        THEN Err(ensure_trusted(s, who, id), s)
    ELSE IF ~(s.Escrows[id].status = "Paid") THEN Err("EscrowNotPaid", s)
    ELSE IF ~(s.Escrows[id].end_time > s.Now) THEN Err("EscrowExpired", s)
    ELSE Ok([s EXCEPT !.Escrows[id].status = "Complete"])

\* complete that also renews the end_time of the escrow
complete_renewing(s, who, id) ==
    IF id \notin DOMAIN s.Escrows THEN Err("MissingEscrow", s)
    ELSE IF ensure_trusted(s, who, id) # "Ok"
        THEN Err(ensure_trusted(s, who, id), s)
    ELSE IF ~(s.Escrows[id].end_time > s.Now) THEN Err("EscrowExpired", s)
    ELSE IF ~(s.Escrows[id].status = "Paid") THEN Err("EscrowNotPaid", s)
    ELSE Ok([s EXCEPT !.Escrows[id].status = "Complete",
                      !.Escrows[id].end_time = s.Now + StandardDuration + 1])

\* complete
complete(s, who, id) ==
    IF id \notin DOMAIN s.Escrows THEN Err("MissingEscrow", s)
    ELSE IF ensure_trusted(s, who, id) # "Ok"
        THEN Err(ensure_trusted(s, who, id), s)
    ELSE IF ~(s.Escrows[id].end_time > s.Now) THEN Err("EscrowExpired", s)
    ELSE IF ~(s.Escrows[id].status = "Paid") THEN Err("EscrowNotPaid", s)
    ELSE Ok([s EXCEPT !.Escrows[id].status = "Complete"])

\* the checks of the results calls without get_open_escrow
results_checks_no_open(s, who, id, url, hash) ==
    IF ~(Len(url) <= StringLimit) THEN "StringSize"
    ELSE IF ~(Len(hash) <= StringLimit) THEN "StringSize"
    ELSE ensure_trusted(s, who, id)

\* the checks shared by note_intermediate_results and store_final_results,
\* in their order: the error, or "Ok"
results_checks(s, who, id, url, hash) ==
    IF ~(Len(url) <= StringLimit) THEN "StringSize"
    ELSE IF ~(Len(hash) <= StringLimit) THEN "StringSize"
    ELSE IF ensure_trusted(s, who, id) # "Ok" THEN ensure_trusted(s, who, id)
    ELSE get_open_escrow(s, id)

\* note_intermediate_results
note_intermediate_results(s, who, id, url, hash) ==
    IF results_checks(s, who, id, url, hash) # "Ok"
    THEN Err(results_checks(s, who, id, url, hash), s)
    ELSE Ok(deposit_event(s, <<"IntermediateResults", id, url, hash>>))

\* store_final_results keeping the results that are stored already
store_final_results_once(s, who, id, url, hash) ==
    IF results_checks(s, who, id, url, hash) # "Ok"
    THEN Err(results_checks(s, who, id, url, hash), s)
    ELSE IF id \in DOMAIN s.FinalResults THEN Ok(s)
    ELSE Ok([s EXCEPT !.FinalResults =
                Insert(@, id, [results_url |-> url, results_hash |-> hash])])

\* store_final_results
store_final_results(s, who, id, url, hash) ==
    IF results_checks(s, who, id, url, hash) # "Ok"
    THEN Err(results_checks(s, who, id, url, hash), s)
    ELSE Ok([s EXCEPT !.FinalResults =
                Insert(@, id, [results_url |-> url, results_hash |-> hash])])

\* bulk_payout_checks with ensure_trusted before get_open_escrow
bulk_payout_checks_trust_first(s, who, id, amounts) ==
    IF ensure_trusted(s, who, id) # "Ok" THEN ensure_trusted(s, who, id)
    ELSE IF get_open_escrow(s, id) # "Ok" THEN get_open_escrow(s, id)
    ELSE IF ~(get_balance(s, s.Escrows[id]) > 0) THEN "OutOfFunds"
    ELSE IF ~(get_balance(s, s.Escrows[id]) >= SatSum(amounts))
        THEN "OutOfFunds"
    ELSE "Ok"

\* bulk_payout_checks without the comparison of the balance with the sum
bulk_payout_checks_no_sum(s, who, id, amounts) ==
    IF get_open_escrow(s, id) # "Ok" THEN get_open_escrow(s, id)
    ELSE IF ensure_trusted(s, who, id) # "Ok" THEN ensure_trusted(s, who, id)
    ELSE IF ~(get_balance(s, s.Escrows[id]) > 0) THEN "OutOfFunds"
    ELSE "Ok"

\* the checks of bulk_payout before the fees are computed, in their order:
\* the error, or "Ok"
bulk_payout_checks(s, who, id, amounts) ==
    IF get_open_escrow(s, id) # "Ok" THEN get_open_escrow(s, id)
    ELSE IF ensure_trusted(s, who, id) # "Ok" THEN ensure_trusted(s, who, id)
    ELSE IF ~(get_balance(s, s.Escrows[id]) > 0) THEN "OutOfFunds"
    ELSE IF get_balance(s, s.Escrows[id]) < SatSum(amounts) THEN "OutOfFunds"
    ELSE "Ok"

\* payout_status that never marks an escrow Paid
payout_status_never_paid(status, balance) ==
    IF status = "Pending" THEN "Partial" ELSE status

\* the status bulk_payout sets, from the status before and the balance re-read
payout_status(status, balance) ==
    LET st1 == IF status = "Pending" THEN "Partial" ELSE status
    IN IF balance = 0 /\ st1 = "Partial" THEN "Paid" ELSE st1

\* the closure bulk_payout runs inside with_transaction_result
bulk_payout_closure(s, who, id, recipients, amounts) ==
    LET check == bulk_payout_checks(s, who, id, amounts)
        escrow == s.Escrows[id]
        fin == finalize_payouts(escrow, amounts)
        t1 == Currency_transfer(s, escrow.account, escrow.reputation_oracle,
                                fin.reputation_fee_total)
        t2 == Currency_transfer(t1.st, escrow.account, escrow.recording_oracle,
                                fin.recording_fee_total)
        t3 == do_transfer_bulk(t2.st, escrow.account, recipients,
                               fin.final_amounts)
        balance == get_balance(t3.st, escrow)
        s4 == [t3.st EXCEPT !.Escrows[id].status =
                                payout_status(escrow.status, balance)]
    IN IF check # "Ok" THEN Err(check, s)
       ELSE IF t1.res # "Ok" THEN t1
       ELSE IF t2.res # "Ok" THEN t2
       ELSE IF t3.res # "Ok" THEN t3
       ELSE Ok(deposit_event(s4, <<"BulkPayout", id>>))

\* bulk_payout
bulk_payout(s, who, id, recipients, amounts) ==
    with_transaction_result(s, bulk_payout_closure(s, who, id, recipients, amounts))

---------------------------------------------------------------------------
(* The inputs *)

\* the signed origins of the calls: the creator and an outsider
Callers == {1, 8}
Creators == {1}
Funder == 1
OraclePairs == {<<3, 4>>}
StakePairs == {<<10, 10>>, <<80, 80>>}
ManifestStrings == {Bytes(24, StringLimit), Bytes(24, StringLimit + 1)}
ResultStrings == {Bytes(33, 1), Bytes(33, StringLimit + 1)}
\* 8 is an outsider, 3 an oracle (trusted since create)
HandlerLists == {<<8>>, <<3>>}

\* the payouts the actions of the specification make
StepPayouts ==
    { [recipients |-> <<5, 6>>, amounts |-> <<50, 50>>],
      [recipients |-> <<5>>, amounts |-> <<50>>] }

\* the payouts the contracts of bulk_payout are checked on, in every
\* reachable state
PayoutArgs ==
    StepPayouts \cup
    { [recipients |-> <<5, 6>>, amounts |-> <<15, 85>>],
      [recipients |-> <<5>>, amounts |-> <<0>>],
      [recipients |-> <<>>, amounts |-> <<>>],
      [recipients |-> <<5, 6, 7>>, amounts |-> <<50, 50>>],
      [recipients |-> <<5>>, amounts |-> <<25, 25>>],
      [recipients |-> [i \in 1..(BulkAccountsLimit + 1) |-> 5],
       amounts |-> [i \in 1..(BulkAccountsLimit + 1) |-> IF i = 1 THEN 50 ELSE 0]],
      [recipients |-> <<5>>, amounts |-> <<MaxCustody + 1>>],
      [recipients |-> <<5, 6>>, amounts |-> <<BalanceMax, BalanceMax>>] }

---------------------------------------------------------------------------
(* The hmtoken pallet *)

\* the accounts that hold tokens in the model
TokenAccounts == {1, 2, 3, 5}

\* the storage of the hmtoken pallet as one record, with the events of the
\* call
TokenState == [Balances |-> HMTokenBalances, Events |-> <<>>]

\* Module::balance (the getter of Balances)
balance_of(s, who) == s.Balances[who]

\* do_transfer crediting the balance the recipient had before the debit
do_transfer_stale(s, from, to, value) ==
    IF value = 0 THEN Err("AmountZero", s)
    ELSE LET from_balance == balance_of(s, from)
             s1 == [s EXCEPT !.Balances[from] = saturating_sub(from_balance, value)]
             s2 == [s1 EXCEPT !.Balances[to] = saturating_add(s.Balances[to], value)]
         IN IF ~(from_balance >= value) THEN Err("BalanceLow", s)
            ELSE Ok(deposit_event(s2, <<"Transferred", from, to, value>>))

\* do_transfer; T::Balance saturates at BalanceMax
do_transfer(s, from, to, value) ==
    IF value = 0 THEN Err("AmountZero", s)
    ELSE LET from_balance == balance_of(s, from)
             s1 == [s EXCEPT !.Balances[from] = saturating_sub(from_balance, value)]
             s2 == [s1 EXCEPT !.Balances[to] = saturating_add(@, value)]
         IN IF ~(from_balance >= value) THEN Err("BalanceLow", s)
            ELSE Ok(deposit_event(s2, <<"Transferred", from, to, value>>))

\* transfer; T::Lookup is IdentityLookup
transfer(s, from, to, value) == do_transfer(s, from, to, value)

RECURSIVE bulk_sum(_, _, _)
\* the loop "for v in values.iter() { sum.saturating_add(*v); }" from value i
\* on: saturating_add returns the sum, the statement drops it, and sum stays
\* what it was
bulk_sum(sum, values, i) ==
    IF i > Len(values) THEN sum
    ELSE LET dropped == saturating_add(sum, values[i])
         IN bulk_sum(sum, values, i + 1)

RECURSIVE bulk_loop(_, _, _, _, _)
\* the loop of transfer_bulk over zip(tos, values), from pair i on; acc holds
\* the storage, bulk_count and failures
bulk_loop(acc, from, tos, values, i) ==
    IF i > Min(Len(tos), Len(values)) THEN acc
    ELSE LET result == do_transfer(acc.st, from, tos[i], values[i])
         IN bulk_loop(IF result.res = "Ok"
                      THEN [st |-> result.st, bulk_count |-> acc.bulk_count + 1,
                            failures |-> acc.failures]
                      ELSE [st |-> acc.st, bulk_count |-> acc.bulk_count,
                            failures |-> acc.failures + 1],
                      from, tos, values, i + 1)

\* transfer_bulk undoing every transfer of the list when one of them fails
transfer_bulk_all_or_nothing(s, from, tos, values, txId) ==
    IF ~(Len(tos) <= HMTokenBulkAccountsLimit) THEN Err("TooManyTos", s)
    ELSE IF ~(Len(tos) = Len(values)) THEN Err("MismatchBulkTransfer", s)
    ELSE IF ~(bulk_sum(0, values, 1) <= HMTokenBulkBalanceLimit)
        THEN Err("TransferTooBig", s)
    ELSE LET done == bulk_loop([st |-> s, bulk_count |-> 0, failures |-> 0],
                               from, tos, values, 1)
         IN IF done.failures > 0
            THEN Ok(deposit_event(s, <<"BulkTransfer", txId, 0, Len(tos)>>))
            ELSE Ok(deposit_event(done.st, <<"BulkTransfer", txId,
                                             done.bulk_count, done.failures>>))

\* transfer_bulk
transfer_bulk(s, from, tos, values, txId) ==
    IF ~(Len(tos) <= HMTokenBulkAccountsLimit) THEN Err("TooManyTos", s)
    ELSE IF ~(Len(tos) = Len(values)) THEN Err("MismatchBulkTransfer", s)
    ELSE IF ~(bulk_sum(0, values, 1) <= HMTokenBulkBalanceLimit)
        THEN Err("TransferTooBig", s)
    ELSE LET done == bulk_loop([st |-> s, bulk_count |-> 0, failures |-> 0],
                               from, tos, values, 1)
         IN Ok(deposit_event(done.st, <<"BulkTransfer", txId, done.bulk_count,
                                        done.failures>>))

---------------------------------------------------------------------------
(* The kvstore pallet *)

\* the storage of the kvstore pallet as one record, with the events of the
\* call
KVState == [Storage |-> Storage, Events |-> <<>>]

\* Module::get: the value stored under (acc, key), or the empty Vec<u8>
get(s, acc, key) ==
    IF <<acc, key>> \in DOMAIN s.Storage THEN s.Storage[<<acc, key>>] ELSE <<>>

\* set_for_account storing under the key alone, for every account
set_for_account_shared(s, acc, key, value) ==
    IF ~(Len(key) <= KVStoreStringLimit) THEN Err("KeyTooLong", s)
    ELSE IF ~(Len(value) <= KVStoreStringLimit) THEN Err("ValueTooLong", s)
    ELSE Ok([s EXCEPT !.Storage =
                [p \in (DOMAIN @) \cup {<<a, key>> : a \in {1, 42}} |->
                    IF p[2] = key THEN value ELSE @[p]]])

\* set_for_account
set_for_account(s, acc, key, value) ==
    IF ~(Len(key) <= KVStoreStringLimit) THEN Err("KeyTooLong", s)
    ELSE IF ~(Len(value) <= KVStoreStringLimit) THEN Err("ValueTooLong", s)
    ELSE Ok([s EXCEPT !.Storage = Insert(@, <<acc, key>>, value)])

\* set
set(s, acc, key, value) ==
    LET r == set_for_account(s, acc, key, value)
    IN IF r.res # "Ok" THEN r
       ELSE Ok(deposit_event(r.st, <<"Stored", acc, key, value>>))

---------------------------------------------------------------------------
(* The specification *)

Init ==
    /\ Counter = 0
    /\ FactoryCounter = 0
    /\ Escrows = <<>>
    /\ EscrowFactory = <<>>
    /\ FinalResults = <<>>
    /\ TrustedHandlers = {}
    /\ HandlersCount = <<>>
    /\ Balances = [a \in Accounts |-> IF a = Funder THEN GenesisBalance ELSE 0]
    /\ Now = 0
    /\ HMTokenBalances =
            [a \in TokenAccounts |-> IF a = initial_account THEN total_supply ELSE 0]
    /\ Storage = <<>>

\* the storage becomes s
Store(s) ==
    /\ Counter' = s.Counter
    /\ FactoryCounter' = s.FactoryCounter
    /\ Escrows' = s.Escrows
    /\ EscrowFactory' = s.EscrowFactory
    /\ FinalResults' = s.FinalResults
    /\ TrustedHandlers' = s.TrustedHandlers
    /\ HandlersCount' = s.HandlersCount
    /\ Balances' = s.Balances
    /\ Now' = s.Now
    /\ UNCHANGED <<HMTokenBalances, Storage>>

CreateFactory ==
    /\ FactoryCounter < MaxFactories
    /\ \E who \in Creators : Store(create_factory(State, who).st)

\* create, on the newest factory or on the factory id that does not exist yet;
\* Spec follows one escrow at a time through all the operations (the next
\* one is created once the record of the last was removed), SpecIds keeps
\* several escrows side by side
Create ==
    /\ Counter < MaxEscrows
    /\ DOMAIN Escrows = {}
    /\ \E who \in Creators, url \in ManifestStrings, hash \in ManifestStrings,
          f \in {FactoryCounter - 1, FactoryCounter} \cap FactoryIdSpace,
          o \in OraclePairs, k \in StakePairs :
            Store(create(State, who, url, hash, f, o[1], o[2], k[1], k[2]).st)

AddTrustedHandlers ==
    \E who \in Callers, id \in CallIds, handlers \in HandlerLists :
        Store(add_trusted_handlers(State, who, id, handlers).st)

Abort ==
    \E who \in Callers, id \in CallIds : Store(abort(State, who, id).st)

Cancel ==
    \E who \in Callers, id \in CallIds : Store(cancel(State, who, id).st)

Complete ==
    \E who \in Callers, id \in CallIds : Store(complete(State, who, id).st)

NoteIntermediateResults ==
    \E who \in Callers, id \in CallIds, url \in ResultStrings, hash \in ResultStrings :
        Store(note_intermediate_results(State, who, id, url, hash).st)

StoreFinalResults ==
    \E who \in Callers, id \in CallIds, url \in ResultStrings, hash \in ResultStrings :
        Store(store_final_results(State, who, id, url, hash).st)

BulkPayout ==
    \E who \in Callers, id \in CallIds, a \in StepPayouts :
        Store(bulk_payout(State, who, id, a.recipients, a.amounts).st)

\* Balances::transfer by the funded account into the custodial account of an
\* escrow
Fund ==
    \E id \in DOMAIN Escrows :
        /\ Balances[account_id_for(id)] + FundAmount <= MaxCustody
        /\ Store(Currency_transfer(State, Funder, account_id_for(id),
                                   FundAmount).st)

\* the timestamp of a later block; the clock matters while an escrow is
\* not expired
Tick ==
    /\ \E id \in DOMAIN Escrows : Escrows[id].end_time > Now
    /\ Store([State EXCEPT !.Now = @ + StandardDuration])

Next ==
    \/ CreateFactory
    \/ Create
    \/ AddTrustedHandlers
    \/ Abort
    \/ Cancel
    \/ Complete
    \/ NoteIntermediateResults
    \/ StoreFinalResults
    \/ BulkPayout
    \/ Fund
    \/ Tick

Spec == Init /\ [][Next]_vars

\* create, while Counter < MaxIds
CreateMany ==
    /\ Counter < MaxIds
    /\ \E who \in Callers, url \in ManifestStrings,
          f \in {FactoryCounter - 1, FactoryCounter} \cap FactoryIdSpace,
          o \in OraclePairs, k \in StakePairs :
            Store(create(State, who, url, Bytes(24, StringLimit), f,
                         o[1], o[2], k[1], k[2]).st)

\* the creation and removal of escrows, for more ids than Spec creates
NextIds ==
    \/ CreateFactory
    \/ CreateMany
    \/ StoreFinalResults
    \/ Abort
    \/ Cancel
    \/ Fund

SpecIds == Init /\ [][NextIds]_vars

\* create on the newest factory, while Counter < MaxFactoryIds
CreateInFactory ==
    /\ Counter < MaxFactoryIds
    /\ FactoryCounter > 0
    /\ Store(create(State, Funder, Bytes(24, StringLimit),
                    Bytes(24, StringLimit), FactoryCounter - 1,
                    3, 4, 10, 10).st)

\* abort of the first escrow by its creator
AbortFirst == Store(abort(State, Funder, 0).st)

\* the timestamp of a later block
TickFactory ==
    /\ Now < MaxFactoryTicks * StandardDuration
    /\ Store([State EXCEPT !.Now = @ + StandardDuration])

\* the filling of one factory
NextFactory ==
    \/ CreateFactory
    \/ CreateInFactory
    \/ AbortFirst
    \/ TickFactory

SpecFactory == Init /\ [][NextFactory]_vars

\* create by the funded account on factory 0, while Counter < MaxIds
CreateFunded ==
    /\ Counter < MaxIds
    /\ \E k \in StakePairs :
            Store(create(State, Funder, Bytes(24, StringLimit),
                         Bytes(24, StringLimit), 0, 3, 4, k[1], k[2]).st)

\* several escrows side by side, funded and paid out
NextCustody ==
    \/ CreateFactory
    \/ CreateFunded
    \/ Fund
    \/ BulkPayout
    \/ Complete
    \/ Cancel
    \/ Abort

SpecCustody == Init /\ [][NextCustody]_vars

\* the inputs of the hmtoken calls: transfers of nothing, of a tenth and of
\* half of the supply; lists of one and two recipients with values of equal
\* and other lengths, and one more recipient than HMTokenBulkAccountsLimit
TokenValues == {0, 100, 500}
TokenTos == {<<2>>, <<2, 3>>, [i \in 1..(HMTokenBulkAccountsLimit + 1) |-> 2]}
TokenValueLists == {<<100>>, <<100, 100>>, <<500, 100>>}
TxIds == {42}

\* the hmtoken storage becomes s
StoreToken(s) ==
    /\ HMTokenBalances' = s.Balances
    /\ UNCHANGED <<Counter, FactoryCounter, Escrows, EscrowFactory,
                   FinalResults, TrustedHandlers, HandlersCount, Balances, Now,
                   Storage>>

Transfer ==
    \E from \in TokenAccounts, to \in TokenAccounts, value \in TokenValues :
        StoreToken(transfer(TokenState, from, to, value).st)

TransferBulk ==
    \E from \in TokenAccounts, tos \in TokenTos, values \in TokenValueLists, txId \in TxIds :
        StoreToken(transfer_bulk(TokenState, from, tos, values, txId).st)

NextToken ==
    \/ Transfer
    \/ TransferBulk

\* the hmtoken pallet
SpecToken == Init /\ [][NextToken]_vars

\* the inputs of the kvstore calls: keys and values of a few bytes, of
\* KVStoreStringLimit bytes and of one more, and the empty value
KVAccounts == {1, 42}
KVKeys == {Bytes(1, 4), Bytes(2, KVStoreStringLimit), Bytes(21, KVStoreStringLimit + 1)}
KVValues == {<<>>, Bytes(5, 4), Bytes(6, KVStoreStringLimit), Bytes(21, KVStoreStringLimit + 1)}

\* the kvstore storage becomes s
StoreKV(s) ==
    /\ Storage' = s.Storage
    /\ UNCHANGED <<Counter, FactoryCounter, Escrows, EscrowFactory,
                   FinalResults, TrustedHandlers, HandlersCount, Balances, Now,
                   HMTokenBalances>>

Set ==
    \E acc \in KVAccounts, key \in KVKeys, value \in KVValues :
        StoreKV(set(KVState, acc, key, value).st)

SetForAccount ==
    \E acc \in KVAccounts, key \in KVKeys, value \in KVValues :
        StoreKV(set_for_account(KVState, acc, key, value).st)

NextKV ==
    \/ Set
    \/ SetForAccount

\* the kvstore pallet
SpecKV == Init /\ [][NextKV]_vars

---------------------------------------------------------------------------
(* The calls a claim ranges over, in the current state *)

RECURSIVE Sum(_)
\* the sum of a sequence of numbers, without saturation
Sum(values) ==
    IF values = <<>> THEN 0
    ELSE Sum(SubSeq(values, 1, Len(values) - 1)) + values[Len(values)]

HandlerArgs == HandlerLists \cup {<<5, 6>>, <<8, 8>>, <<>>}

\* every privileged call on escrow id by who, with its arguments and its
\* outcome r
PrivilegedCalls(who, id) ==
    {[op |-> "add_trusted_handlers", args |-> <<h>>,
      r |-> add_trusted_handlers(State, who, id, h)] : h \in HandlerArgs}
    \cup {[op |-> "abort", args |-> <<>>, r |-> abort(State, who, id)]}
    \cup {[op |-> "cancel", args |-> <<>>, r |-> cancel(State, who, id)]}
    \cup {[op |-> "complete", args |-> <<>>, r |-> complete(State, who, id)]}
    \cup {[op |-> "note_intermediate_results", args |-> p,
           r |-> note_intermediate_results(State, who, id, p[1], p[2])] :
            p \in ResultStrings \X ResultStrings}
    \cup {[op |-> "store_final_results", args |-> p,
           r |-> store_final_results(State, who, id, p[1], p[2])] :
            p \in ResultStrings \X ResultStrings}
    \cup {[op |-> "bulk_payout", args |-> <<a.recipients, a.amounts>>,
           r |-> bulk_payout(State, who, id, a.recipients, a.amounts)] :
            a \in PayoutArgs}

\* the oracles of the create calls the contracts are checked on: distinct
\* from the creator, the creator as an oracle, one account as both oracles
OracleArgs == OraclePairs \cup {<<1, 4>>, <<3, 3>>}

\* every create call, with its outcome r
CreateCalls ==
    {[op |-> "create", who |-> c[1], url |-> c[2], hash |-> c[3],
      factory |-> c[4], oracles |-> c[5], stakes |-> c[6],
      r |-> create(State, c[1], c[2], c[3], c[4], c[5][1], c[5][2], c[6][1], c[6][2])] :
        c \in Callers \X ManifestStrings \X ManifestStrings \X FactoryIdSpace
              \X OracleArgs \X StakePairs}

\* every call of a dispatchable the claims range over, with its outcome r
AllCalls ==
    {[op |-> "create", r |-> c.r] : c \in CreateCalls}
    \cup {[op |-> "create_factory", r |-> create_factory(State, who)] : who \in Callers}
    \cup {[op |-> c.op, r |-> c.r] :
            c \in UNION {PrivilegedCalls(x[1], x[2]) : x \in Callers \X CallIds}}

---------------------------------------------------------------------------
(* C1 *)

\* a bulk_payout call that passes the checks before the fee transfers and
\* then fails
FailsAfterChecks(who, id, a) ==
    /\ bulk_payout_checks(State, who, id, a.amounts) = "Ok"
    /\ bulk_payout(State, who, id, a.recipients, a.amounts).res # "Ok"

\* C1: bulk_payout is all-or-nothing: when a call fails after the oracle-fee
\* transfers have been issued, the storage it leaves (balances, escrow
\* status, everything else) is the storage before the call, and no event is
\* deposited.
C1_BulkPayoutAllOrNothing ==
    \A who \in Callers, id \in CallIds, a \in PayoutArgs :
        FailsAfterChecks(who, id, a) =>
            LET r == bulk_payout(State, who, id, a.recipients, a.amounts)
            IN /\ r.st = State
               /\ r.st.Balances = Balances
               /\ r.st.Escrows = Escrows
               /\ r.st.Events = <<>>

\* a state in which a payout with a recipient too many fails with
\* MismatchBulkTransfer, and a payout to too many recipients with TooManyTos,
\* both after the fee transfers have moved balance inside the transaction
C1_Witness ==
    \E who \in Callers, id \in CallIds, a \in PayoutArgs, b \in PayoutArgs :
        /\ FailsAfterChecks(who, id, a)
        /\ FailsAfterChecks(who, id, b)
        /\ bulk_payout(State, who, id, a.recipients, a.amounts).res
                = "MismatchBulkTransfer"
        /\ bulk_payout(State, who, id, b.recipients, b.amounts).res = "TooManyTos"
        /\ bulk_payout_closure(State, who, id, a.recipients, a.amounts).st.Balances
                # Balances
        /\ bulk_payout_closure(State, who, id, b.recipients, b.amounts).st.Balances
                # Balances

---------------------------------------------------------------------------
(* C2 *)

\* the edges of the status graph each dispatchable may take
StatusEdges(op) ==
    CASE op = "bulk_payout" ->
            {<<"Pending", "Partial">>, <<"Pending", "Paid">>, <<"Partial", "Paid">>}
      [] op = "complete" -> {<<"Paid", "Complete">>}
      [] op = "cancel" -> {<<"Pending", "Cancelled">>, <<"Partial", "Cancelled">>}
      [] OTHER -> {}

\* C2: whatever call is made in a reachable state, the status of every escrow
\* that exists before and after it is unchanged or moves along one of the
\* edges Pending->Partial, Pending->Paid, Partial->Paid (bulk_payout),
\* Paid->Complete (complete), Pending->Cancelled, Partial->Cancelled (cancel);
\* in particular a Complete or Cancelled escrow keeps its status.
C2_StatusEdges ==
    \A c \in AllCalls :
        \A id \in (DOMAIN Escrows) \cap (DOMAIN c.r.st.Escrows) :
            \/ c.r.st.Escrows[id].status = Escrows[id].status
            \/ <<Escrows[id].status, c.r.st.Escrows[id].status>> \in StatusEdges(c.op)

\* an escrow that was paid out in two payouts and then completed
C2_Witness ==
    \E id \in DOMAIN Escrows :
        /\ Escrows[id].status = "Complete"
        /\ Balances[5] = 80

---------------------------------------------------------------------------
(* C3 *)

\* who is not trusted for the existing escrow id
Untrusted(who, id) ==
    id \in DOMAIN Escrows /\ <<id, who>> \notin TrustedHandlers

UntrustedError(c, id) ==
    IF /\ c.op \in {"note_intermediate_results", "store_final_results"}
       /\ (Len(c.args[1]) > StringLimit \/ Len(c.args[2]) > StringLimit)
    THEN "StringSize"
    ELSE IF c.op = "bulk_payout" /\ Escrows[id].end_time <= Now
    THEN "EscrowExpired"
    ELSE IF c.op = "bulk_payout" /\ Escrows[id].status \notin {"Pending", "Partial"}
    THEN "EscrowClosed"
    ELSE "NonTrustedAccount"

---------------------------------------------------------------------------
(* C4 - C7: bulk_payout *)

\* floor(a * stake / 100), as the claims state the fees
FloorPercent(a, stake) == (a * stake) \div 100

\* the net amount the claims state for a payout amount a of escrow e
NetOf(e, a) ==
    a - FloorPercent(a, e.reputation_oracle_stake)
      - FloorPercent(a, e.recording_oracle_stake)

\* the bulk_payout calls that succeed in the current state
SuccessfulPayouts ==
    {c \in Callers \X CallIds \X PayoutArgs :
        bulk_payout(State, c[1], c[2], c[3].recipients, c[3].amounts).res = "Ok"}

\* C4: for every bulk_payout that succeeds, the fee totals and the net
\* amounts finalize_payouts computes add up to the sum of the requested
\* amounts, less a rounding loss between 0 and 2 * len(amounts).
C4_Conservation ==
    \A c \in SuccessfulPayouts :
        LET amounts == c[3].amounts
            fin == finalize_payouts(Escrows[c[2]], amounts)
            loss == Sum(amounts) - (fin.reputation_fee_total
                        + fin.recording_fee_total + Sum(fin.final_amounts))
        IN 0 <= loss /\ loss <= 2 * Len(amounts)

\* a successful payout of amounts whose fees are rounded down (15 and 85 at
\* 10%)
C4_Witness ==
    \E c \in SuccessfulPayouts :
        /\ c[3].amounts = <<15, 85>>
        /\ LET fin == finalize_payouts(Escrows[c[2]], c[3].amounts)
           IN /\ fin.reputation_fee_total = 9
              /\ fin.recording_fee_total = 9
              /\ fin.final_amounts = <<13, 69>>

RECURSIVE SumWhere(_, _, _)
\* the sum of values[i] over the i with tos[i] = x
SumWhere(tos, values, x) ==
    IF tos = <<>> THEN 0
    ELSE SumWhere(SubSeq(tos, 1, Len(tos) - 1), SubSeq(values, 1, Len(tos) - 1), x)
         + (IF tos[Len(tos)] = x THEN values[Len(tos)] ELSE 0)

\* what the claim credits to account x in a payout of amounts to recipients
\* by escrow e
CreditOf(e, recipients, amounts, x) ==
    SumWhere(recipients, [i \in 1..Len(amounts) |-> NetOf(e, amounts[i])], x)
    + (IF x = e.reputation_oracle
       THEN Sum([i \in 1..Len(amounts) |->
                    FloorPercent(amounts[i], e.reputation_oracle_stake)])
       ELSE 0)
    + (IF x = e.recording_oracle
       THEN Sum([i \in 1..Len(amounts) |->
                    FloorPercent(amounts[i], e.recording_oracle_stake)])
       ELSE 0)

\* C5: a successful bulk_payout raises the balance of every account other
\* than the custodial account by the net amounts a_i - floor(a_i*rep/100) -
\* floor(a_i*rec/100) addressed to it, plus the sum of floor(a_i*rep/100) if it
\* is the reputation oracle, plus the sum of floor(a_i*rec/100) if it is the
\* recording oracle, and lowers the custodial balance by the sum of all of
\* these.
C5_PayoutCredits ==
    \A c \in SuccessfulPayouts :
        LET e == Escrows[c[2]]
            r == bulk_payout(State, c[1], c[2], c[3].recipients, c[3].amounts)
        IN /\ \A x \in Accounts \ {e.account} :
                r.st.Balances[x]
                    = Balances[x] + CreditOf(e, c[3].recipients, c[3].amounts, x)
           /\ r.st.Balances[e.account] = Balances[e.account] - Sum(c[3].amounts)

\* the example of the claim: stakes 10%/10%, custodial balance 100, amounts
\* [50, 50] to two recipients give them 40 each and each oracle 10
C5_Witness ==
    \E c \in SuccessfulPayouts :
        LET e == Escrows[c[2]]
            r == bulk_payout(State, c[1], c[2], c[3].recipients, c[3].amounts)
        IN /\ e.reputation_oracle_stake = 10 /\ e.recording_oracle_stake = 10
           /\ Balances[e.account] = 100
           /\ c[3].amounts = <<50, 50>> /\ c[3].recipients = <<5, 6>>
           /\ Balances[5] = 0 /\ Balances[6] = 0
           /\ Balances[e.reputation_oracle] = 0 /\ Balances[e.recording_oracle] = 0
           /\ r.st.Balances[5] = 40 /\ r.st.Balances[6] = 40
           /\ r.st.Balances[e.reputation_oracle] = 10
           /\ r.st.Balances[e.recording_oracle] = 10
           /\ r.st.Balances[e.account] = 0

\* C6: after a successful bulk_payout the status of the escrow is Paid if
\* the custodial balance is then zero, and Partial otherwise.
C6_PaidIffEmpty ==
    \A c \in SuccessfulPayouts :
        LET r == bulk_payout(State, c[1], c[2], c[3].recipients, c[3].amounts)
            after == r.st.Escrows[c[2]]
        IN after.status = IF r.st.Balances[after.account] = 0 THEN "Paid"
                          ELSE "Partial"

\* a Pending escrow that a single payout of its whole balance leaves Paid and
\* a payout of zero leaves Partial
C6_Witness ==
    \E c \in SuccessfulPayouts, d \in SuccessfulPayouts :
        /\ c[2] = d[2]
        /\ Escrows[c[2]].status = "Pending"
        /\ Sum(c[3].amounts) = Balances[Escrows[c[2]].account]
        /\ bulk_payout(State, c[1], c[2], c[3].recipients, c[3].amounts)
                .st.Escrows[c[2]].status = "Paid"
        /\ d[3].amounts = <<0>>
        /\ bulk_payout(State, d[1], d[2], d[3].recipients, d[3].amounts)
                .st.Escrows[d[2]].status = "Partial"

\* who is trusted for the open escrow id
TrustedOnOpen(who, id) ==
    /\ id \in DOMAIN Escrows
    /\ <<id, who>> \in TrustedHandlers
    /\ Escrows[id].end_time > Now
    /\ Escrows[id].status \in {"Pending", "Partial"}

\* C7: bulk_payout by a trusted caller on an open escrow fails with
\* OutOfFunds when the custodial balance is zero or the sum of the amounts
\* exceeds it; the call then changes neither balances nor storage.
C7_OutOfFunds ==
    \A who \in Callers, id \in CallIds, a \in PayoutArgs :
        (/\ TrustedOnOpen(who, id)
         /\ \/ Balances[account_id_for(id)] = 0
            \/ Sum(a.amounts) > Balances[account_id_for(id)])
        => LET r == bulk_payout(State, who, id, a.recipients, a.amounts)
           IN r.res = "OutOfFunds" /\ r.st = State

\* a funded open escrow on which a payout of more than the balance, and one
\* whose amounts overflow the balance type, fail with OutOfFunds
C7_Witness ==
    \E who \in Callers, id \in CallIds :
        /\ TrustedOnOpen(who, id)
        /\ Balances[account_id_for(id)] > 0
        /\ \A a \in {[recipients |-> <<5>>, amounts |-> <<MaxCustody + 1>>],
                     [recipients |-> <<5, 6>>, amounts |-> <<BalanceMax, BalanceMax>>]} :
                bulk_payout(State, who, id, a.recipients, a.amounts).res = "OutOfFunds"

---------------------------------------------------------------------------
(* C8 - C10: create *)

\* the sum of the two stakes of escrow record or create call x
StakeSum(x) == x[1] + x[2]

\* every stored escrow has a stake sum of at most 100
StoredStakesBounded ==
    \A id \in DOMAIN Escrows :
        Escrows[id].reputation_oracle_stake + Escrows[id].recording_oracle_stake
            <= 100

\* the original statement of C8: every create with a stake sum above 100
\* fails with StakeOutOfBounds and writes nothing
C8_Original ==
    /\ StoredStakesBounded
    /\ \A c \in CreateCalls :
        StakeSum(c.stakes) > 100 =>
            c.r.res = "StakeOutOfBounds" /\ c.r.st = State

\* the checks create makes before it looks at the stakes pass
EarlierCreateChecksPass(c) ==
    /\ Len(c.url) <= StringLimit
    /\ Len(c.hash) <= StringLimit
    /\ c.factory \in DOMAIN EscrowFactory
    /\ Len(EscrowFactory[c.factory]) <= 20

\* C8 (amended): every stored escrow has a stake sum of at most 100; create
\* with a stake sum above 100 fails before any state write (no record, no
\* trust entry, Counter unchanged), with StakeOutOfBounds when the manifest
\* strings are within StringLimit and the factory exists and is not over its
\* capacity, and otherwise with the error of that earlier check.
C8_StakeBound ==
    /\ StoredStakesBounded
    /\ \A c \in CreateCalls :
        StakeSum(c.stakes) > 100 =>
            /\ c.r.res # "Ok"
            /\ c.r.st = State
            /\ c.r.st.Escrows = Escrows
            /\ c.r.st.TrustedHandlers = TrustedHandlers
            /\ c.r.st.Counter = Counter
            /\ EarlierCreateChecksPass(c) => c.r.res = "StakeOutOfBounds"
            /\ c.r.res \in {"StakeOutOfBounds", "StringSize",
                            "FactoryDoesNotExist", "FactoryOutOfBounds"}

\* a state with a factory and an escrow, in which create with stakes 80%+80%
\* fails with StakeOutOfBounds, and with StringSize when the url is too long
C8_Witness ==
    /\ DOMAIN Escrows # {}
    /\ \E c \in CreateCalls :
        StakeSum(c.stakes) > 100 /\ c.r.res = "StakeOutOfBounds"
    /\ \E c \in CreateCalls :
        StakeSum(c.stakes) > 100 /\ c.r.res = "StringSize"

\* C9: create with a manifest_url or a manifest_hash longer than StringLimit
\* fails with StringSize; no escrow is stored, no trust entry is added, the
\* factory lists and Counter are unchanged.
C9_StringSize ==
    \A c \in CreateCalls :
        (Len(c.url) > StringLimit \/ Len(c.hash) > StringLimit) =>
            /\ c.r.res = "StringSize"
            /\ c.r.st = State
            /\ c.r.st.Escrows = Escrows
            /\ c.r.st.TrustedHandlers = TrustedHandlers
            /\ c.r.st.EscrowFactory = EscrowFactory
            /\ c.r.st.Counter = Counter

\* a state in which a create succeeds, and the same create with a hash of
\* StringLimit + 1 bytes fails with StringSize
C9_Witness ==
    \E c \in CreateCalls, d \in CreateCalls :
        /\ c.r.res = "Ok"
        /\ d.url = c.url /\ d.factory = c.factory /\ d.stakes = c.stakes
        /\ Len(d.hash) = StringLimit + 1
        /\ d.r.res = "StringSize"

\* what a call may do to Counter and to the ids below it
CounterContract(c) ==
    /\ c.r.st.Counter =
            IF c.op = "create" /\ c.r.res = "Ok" THEN Counter + 1 ELSE Counter
    /\ \A id \in 0..(Counter - 1) :
            id \notin DOMAIN Escrows => id \notin DOMAIN c.r.st.Escrows

\* C10: every call leaves Counter unchanged, except a successful create,
\* which adds exactly one; along every step Counter does not decrease, it
\* changes only in a step that is a successful create, and an id below
\* Counter that has no record (an escrow abort removed) never gets a record
\* again.
C10_CounterMonotone ==
    /\ [](\A c \in AllCalls : CounterContract(c))
    /\ [][/\ Counter' >= Counter
          /\ Counter' # Counter =>
                \E c \in CreateCalls :
                    /\ c.r.res = "Ok"
                    /\ Counter' = c.r.st.Counter
                    /\ Escrows' = c.r.st.Escrows
          /\ \A id \in 0..(Counter - 1) :
                id \notin DOMAIN Escrows => id \notin DOMAIN Escrows'
         ]_vars

\* escrow 0 was aborted and an escrow created under id 1 exists
C10_Witness ==
    /\ Counter = 2
    /\ 0 \notin DOMAIN Escrows
    /\ 1 \in DOMAIN Escrows
    /\ <<0, 1>> \notin TrustedHandlers
    /\ EscrowFactory[0] = <<1>>

---------------------------------------------------------------------------
(* C11 *)

\* C11: any two stored escrows with different ids have different custodial
\* accounts, and the account field of every stored escrow is the account
\* derived from its own id.
C11_AccountsDiffer ==
    /\ \A i \in DOMAIN Escrows, j \in DOMAIN Escrows :
            i # j => Escrows[i].account # Escrows[j].account
    /\ \A i \in DOMAIN Escrows : Escrows[i].account = account_id_for(i)

---------------------------------------------------------------------------
(* C12 *)

\* C12: a successful create stores, under the id that Counter held before
\* the call, a record with status Pending, the caller as canceller, end_time
\* = the timestamp + StandardDuration, the account derived from the id and the
\* arguments of the call; it makes the caller and both oracles trusted
\* handlers of the id, appends the id to the list of the chosen factory, and
\* emits Pending(id, caller, manifest_url, manifest_hash, account).
C12_CreateEffects ==
    \A c \in CreateCalls :
        c.r.res = "Ok" =>
            LET id == Counter
                st == c.r.st
            IN /\ id \in DOMAIN st.Escrows
               /\ DOMAIN st.Escrows = DOMAIN Escrows \cup {id}
               /\ st.Escrows[id].status = "Pending"
               /\ st.Escrows[id].canceller = c.who
               /\ st.Escrows[id].end_time = Now + StandardDuration
               /\ st.Escrows[id].account = account_id_for(id)
               /\ st.Escrows[id].manifest_url = c.url
               /\ st.Escrows[id].manifest_hash = c.hash
               /\ st.Escrows[id].reputation_oracle = c.oracles[1]
               /\ st.Escrows[id].recording_oracle = c.oracles[2]
               /\ st.Escrows[id].factory = c.factory
               /\ {<<id, c.who>>, <<id, c.oracles[1]>>, <<id, c.oracles[2]>>}
                    \subseteq st.TrustedHandlers
               /\ st.EscrowFactory[c.factory]
                    = Append(EscrowFactory[c.factory], id)
               /\ st.Events = << <<"Pending", id, c.who, c.url, c.hash,
                                   account_id_for(id)>> >>

\* escrow 0 was aborted after the timestamp moved, and a create by account 8
\* succeeds and stores its record under id 1 with end_time 2000
C12_Witness ==
    /\ Counter = 1
    /\ Now = StandardDuration
    /\ \E c \in CreateCalls :
        /\ c.r.res = "Ok"
        /\ c.who = 8
        /\ c.r.st.Escrows[1].canceller = 8
        /\ c.r.st.Escrows[1].end_time = 2 * StandardDuration
        /\ <<1, 8>> \in c.r.st.TrustedHandlers

---------------------------------------------------------------------------
(* C13 *)

\* the record e with its status replaced by the status of record f
WithStatusOf(e, f) == [e EXCEPT !.status = f.status]

\* C13: no call of any dispatchable changes the end_time, manifest_url,
\* manifest_hash, reputation_oracle, recording_oracle, oracle stakes,
\* canceller, account or factory of a stored escrow: a record that is stored
\* before and after the call differs at most in its status; and the same
\* holds along every step.
C13_OnlyStatusChanges ==
    /\ [](\A c \in AllCalls :
            \A id \in DOMAIN Escrows \cap DOMAIN c.r.st.Escrows :
                WithStatusOf(c.r.st.Escrows[id], Escrows[id]) = Escrows[id])
    /\ [][\A id \in DOMAIN Escrows \cap DOMAIN Escrows' :
            WithStatusOf(Escrows'[id], Escrows[id]) = Escrows[id]]_vars

\* escrow 0 went from Pending to Complete and a handler was added to it,
\* and its other fields are those that create stored
C13_Witness ==
    /\ 0 \in DOMAIN Escrows
    /\ Escrows[0].status = "Complete"
    /\ <<0, 8>> \in TrustedHandlers
    /\ Escrows[0].end_time = StandardDuration
    /\ Escrows[0].canceller = 1
    /\ Escrows[0].account = account_id_for(0)
    /\ Escrows[0].reputation_oracle = 3
    /\ Escrows[0].recording_oracle = 4
    /\ Escrows[0].reputation_oracle_stake = 10
    /\ Escrows[0].recording_oracle_stake = 10
    /\ Escrows[0].factory = 0

---------------------------------------------------------------------------
(* C14 - C16: the registry of trusted handlers *)

\* the principals trusted for escrow id in storage s
TrustedOf(s, id) == {p \in Principals : <<id, p>> \in s.TrustedHandlers}

\* the add_trusted_handlers calls of a trusted caller whose handlers are all
\* trusted already (and there is at least one), with their outcomes
AddTrustedAgain ==
    {[id |-> x[2], handlers |-> x[3],
      r |-> add_trusted_handlers(State, x[1], x[2], x[3])] :
        x \in {y \in Callers \X CallIds \X HandlerArgs :
                /\ y[1] \in TrustedOf(State, y[2])
                /\ y[3] # <<>>
                /\ \A i \in 1..Len(y[3]) : y[3][i] \in TrustedOf(State, y[2])}}

\* C14: add_trusted_handlers with principals that are trusted already is an
\* idempotent no-op: the call does not fail, the set of trusted principals is
\* unchanged and the handler count is unchanged.
C14_AddTrustedIdempotent ==
    \A c \in AddTrustedAgain :
        /\ c.r.res = "Ok"
        /\ TrustedOf(c.r.st, c.id) = TrustedOf(State, c.id)
        /\ handlers_count(c.r.st, c.id) = handlers_count(State, c.id)


\* the add_trusted_handlers calls whose recorded count would exceed
\* HandlersLimit, or whose set of trusted principals would, with their
\* callers and outcomes
AddTrustedOverLimit ==
    {[who |-> x[1], id |-> x[2], handlers |-> x[3],
      r |-> add_trusted_handlers(State, x[1], x[2], x[3])] :
        x \in {y \in Callers \X CallIds \X HandlerArgs :
                \/ handlers_count(State, y[2]) + Len(y[3]) > HandlersLimit
                \/ Cardinality(TrustedOf(State, y[2])
                        \cup {y[3][i] : i \in 1..Len(y[3])}) > HandlersLimit}}

\* no escrow has more trusted principals than HandlersLimit, in storage s
TrustedWithinLimit(s) ==
    \A id \in IdSpace : Cardinality(TrustedOf(s, id)) <= HandlersLimit

C16_CountMatchesTrusted ==
    /\ \A id \in IdSpace :
        handlers_count(State, id) = Cardinality(TrustedOf(State, id))
    /\ \A c \in AllCalls : \A id \in IdSpace :
        handlers_count(c.r.st, id) = Cardinality(TrustedOf(c.r.st, id))

---------------------------------------------------------------------------
(* C17 *)

\* the elements of the sequence seq
Range(seq) == {seq[i] : i \in 1..Len(seq)}

\* the trust entries of storage s for escrow id
TrustEntries(s, id) == {k \in s.TrustedHandlers : k[1] = id}

\* the call c on escrow id by who adds no trust entry, unless it is an
\* add_trusted_handlers by a principal trusted for id, which adds entries of
\* id for the handlers given only; and it removes no trust entry, unless it
\* is a successful abort, which removes every entry of id and no other
TrustContract(c, who, id) ==
    /\ c.r.st.TrustedHandlers \ TrustedHandlers # {} =>
            /\ c.op = "add_trusted_handlers"
            /\ <<id, who>> \in TrustedHandlers
            /\ c.r.st.TrustedHandlers \ TrustedHandlers
                    \subseteq {<<id, p>> : p \in Range(c.args[1])}
    /\ TrustedHandlers \ c.r.st.TrustedHandlers # {} =>
            /\ c.op = "abort"
            /\ c.r.res = "Ok"
    /\ (c.op = "abort" /\ c.r.res = "Ok") =>
            /\ TrustEntries(c.r.st, id) = {}
            /\ id \notin DOMAIN c.r.st.Escrows
            /\ c.r.st.TrustedHandlers = TrustedHandlers \ TrustEntries(State, id)

\* a create call adds, when it succeeds, exactly the entries of the new id
\* for the creator and both oracles, and otherwise none
CreateTrustContract(c) ==
    c.r.st.TrustedHandlers =
        IF c.r.res = "Ok"
        THEN TrustedHandlers \cup
                {<<Counter, c.who>>, <<Counter, c.oracles[1]>>,
                 <<Counter, c.oracles[2]>>}
        ELSE TrustedHandlers

\* C17: a principal becomes trusted for an escrow id only through create
\* (the creator and both oracles) or through an add_trusted_handlers call of
\* a principal already trusted for that id; a trusted principal stays trusted
\* across every call and every step until the escrow is aborted, and the
\* abort removes all the trust entries of the id.
C17_TrustLifecycle ==
    /\ [](/\ \A who \in Callers, id \in CallIds :
                \A c \in PrivilegedCalls(who, id) : TrustContract(c, who, id)
          /\ \A c \in CreateCalls : CreateTrustContract(c)
          /\ \A who \in Callers :
                create_factory(State, who).st.TrustedHandlers = TrustedHandlers)
    /\ [][\A id \in IdSpace :
            \/ TrustEntries(State, id) \subseteq TrustedHandlers'
            \/ /\ id \in DOMAIN Escrows
               /\ id \notin DOMAIN Escrows'
               /\ \A k \in TrustedHandlers' : k[1] # id]_vars

\* account 8 was made a trusted handler of escrow 0 by account 1, and the
\* abort it calls succeeds and leaves no trust entry of escrow 0
C17_Witness ==
    /\ TrustEntries(State, 0) = {<<0, 1>>, <<0, 3>>, <<0, 4>>, <<0, 8>>}
    /\ abort(State, 8, 0).res = "Ok"
    /\ TrustEntries(abort(State, 8, 0).st, 0) = {}

---------------------------------------------------------------------------
(* C18 - C19: abort *)

\* the sequence seq without the value x
Without(seq, x) == SelectSeq(seq, LAMBDA y : y # x)

\* the balances after the whole balance of account from moved to account to
AfterRefund(from, to) ==
    [a \in DOMAIN Balances |->
        IF a = from THEN 0
        ELSE IF a = to THEN Balances[to] + Balances[from]
        ELSE Balances[a]]

\* C18: a successful abort(id) moves the whole custodial balance to the
\* canceller of the escrow, whichever trusted handler calls (no balance
\* changes when it is zero), and removes the record, every trust entry of id,
\* the handler count, the final results and the id from the list of its
\* factory; nothing else changes.
C18_AbortEffects ==
    \A who \in Callers, id \in CallIds :
        LET r == abort(State, who, id)
        IN r.res = "Ok" =>
            /\ id \in DOMAIN Escrows
            /\ r.st.Balances =
                    AfterRefund(Escrows[id].account, Escrows[id].canceller)
            /\ Balances[Escrows[id].account] = 0 => r.st.Balances = Balances
            /\ r.st.Escrows = Remove(Escrows, id)
            /\ r.st.TrustedHandlers = TrustedHandlers \ TrustEntries(State, id)
            /\ r.st.HandlersCount = Remove(HandlersCount, id)
            /\ r.st.FinalResults = Remove(FinalResults, id)
            /\ r.st.EscrowFactory =
                    [EscrowFactory EXCEPT ![Escrows[id].factory] =
                        Without(@, id)]
            /\ r.st.Counter = Counter
            /\ r.st.FactoryCounter = FactoryCounter

\* a funded escrow of creator 1 with final results, which the added handler
\* 8 aborts: the 100 units go to account 1
C18_Witness ==
    /\ 0 \in DOMAIN Escrows
    /\ 0 \in DOMAIN FinalResults
    /\ Escrows[0].canceller = 1
    /\ Balances[account_id_for(0)] = FundAmount
    /\ abort(State, 8, 0).res = "Ok"
    /\ abort(State, 8, 0).st.Balances[1] = Balances[1] + FundAmount
    /\ abort(State, 8, 0).st.Balances[8] = Balances[8]

\* C19: abort fails with MissingEscrow when no record exists; called by a
\* trusted handler of a stored escrow it fails with EscrowClosed exactly when
\* the status is Paid or Complete and succeeds when it is Pending, Partial or
\* Cancelled; a failed abort changes neither the record, the trust entries,
\* the results, the factory lists nor any balance.
C19_AbortFailures ==
    \A who \in Callers, id \in CallIds :
        LET r == abort(State, who, id)
        IN /\ id \notin DOMAIN Escrows => r.res = "MissingEscrow"
           /\ (id \in DOMAIN Escrows /\ <<id, who>> \in TrustedHandlers) =>
                /\ r.res = "EscrowClosed"
                        <=> Escrows[id].status \in {"Paid", "Complete"}
                /\ r.res = "Ok"
                        <=> Escrows[id].status \in
                                {"Pending", "Partial", "Cancelled"}
           /\ r.res # "Ok" =>
                /\ r.st = State
                /\ r.st.Escrows = Escrows
                /\ r.st.TrustedHandlers = TrustedHandlers
                /\ r.st.FinalResults = FinalResults
                /\ r.st.EscrowFactory = EscrowFactory
                /\ r.st.Balances = Balances

\* escrow 0 is Paid and the abort of its creator fails with EscrowClosed,
\* while no escrow 1 exists and its abort fails with MissingEscrow
C19_Witness ==
    /\ 0 \in DOMAIN Escrows
    /\ Escrows[0].status = "Paid"
    /\ abort(State, 1, 0).res = "EscrowClosed"
    /\ abort(State, 1, 1).res = "MissingEscrow"

---------------------------------------------------------------------------
(* C20: cancel *)

\* the timestamps cancel is tried at: the current one, and the end_time of
\* escrow id and the moments around it
CancelTimes(id) ==
    {Now, Escrows[id].end_time - 1, Escrows[id].end_time,
     Escrows[id].end_time + 1}

\* C20: cancel by a trusted handler of a stored escrow succeeds exactly when
\* the status is Pending or Partial and the custodial balance is positive; it
\* then moves the whole custodial balance to the canceller, sets the status
\* Cancelled, keeps the record and changes nothing else; otherwise it fails
\* with EscrowClosed (status Paid, Complete or Cancelled) or with OutOfFunds
\* (status Pending or Partial, balance zero) and changes nothing.  The outcome
\* is the same at every timestamp, before and after end_time.
C20_Cancel ==
    \A who \in Callers, id \in CallIds :
        (id \in DOMAIN Escrows /\ <<id, who>> \in TrustedHandlers) =>
            LET r == cancel(State, who, id)
                open == Escrows[id].status \in {"Pending", "Partial"}
                balance == Balances[Escrows[id].account]
            IN /\ r.res = "Ok" <=> (open /\ balance > 0)
               /\ r.res = "Ok" =>
                    /\ r.st.Balances =
                        AfterRefund(Escrows[id].account, Escrows[id].canceller)
                    /\ r.st.Escrows =
                        [Escrows EXCEPT ![id].status = "Cancelled"]
                    /\ r.st = [State EXCEPT !.Balances = r.st.Balances,
                                            !.Escrows = r.st.Escrows]
               /\ ~open => r.res = "EscrowClosed"
               /\ (open /\ balance = 0) => r.res = "OutOfFunds"
               /\ r.res # "Ok" => r.st = State
               /\ \A t \in CancelTimes(id) :
                    /\ cancel([State EXCEPT !.Now = t], who, id).res = r.res
                    /\ cancel([State EXCEPT !.Now = t], who, id).st
                            = [r.st EXCEPT !.Now = t]

\* escrow 0 is Partial with 50 units left and past its end_time, and the
\* cancel of the added handler 8 succeeds and refunds the creator
C20_Witness ==
    /\ 0 \in DOMAIN Escrows
    /\ Escrows[0].status = "Partial"
    /\ Now >= Escrows[0].end_time
    /\ Balances[account_id_for(0)] = 50
    /\ cancel(State, 8, 0).res = "Ok"
    /\ cancel(State, 8, 0).st.Balances[1] = Balances[1] + 50
    /\ cancel(State, 8, 0).st.Escrows[0].status = "Cancelled"

---------------------------------------------------------------------------
(* C21: complete *)

\* C21: complete by a trusted handler of a stored escrow succeeds, and sets
\* the status Complete and nothing else, exactly when the escrow is not
\* expired and its status is Paid; on an expired escrow it fails with
\* EscrowExpired whatever the status, on an unexpired escrow that is not Paid
\* with EscrowNotPaid; a failed complete changes nothing.
C21_Complete ==
    \A who \in Callers, id \in CallIds :
        (id \in DOMAIN Escrows /\ <<id, who>> \in TrustedHandlers) =>
            LET r == complete(State, who, id)
                expired == ~(Escrows[id].end_time > Now)
                paid == Escrows[id].status = "Paid"
            IN /\ r.res = "Ok" <=> (~expired /\ paid)
               /\ r.res = "Ok" =>
                    r.st = [State EXCEPT !.Escrows[id].status = "Complete"]
               /\ expired => r.res = "EscrowExpired"
               /\ (~expired /\ ~paid) => r.res = "EscrowNotPaid"
               /\ r.res # "Ok" => r.st = State

\* escrow 0 is Paid and past its end_time, and complete fails with
\* EscrowExpired
C21_Witness ==
    /\ 0 \in DOMAIN Escrows
    /\ Escrows[0].status = "Paid"
    /\ Now >= Escrows[0].end_time
    /\ complete(State, 1, 0).res = "EscrowExpired"

---------------------------------------------------------------------------
(* C22 - C23: results *)

\* the urls and hashes the contracts of the results calls are checked on:
\* two different ones within StringLimit, one of them of exactly StringLimit
\* bytes, and one beyond it
ResultArgs == ResultStrings \cup {Bytes(34, StringLimit)}

\* the ResultInfo of a url and a hash
ResultInfo(url, hash) == [results_url |-> url, results_hash |-> hash]

\* C22: a successful store_final_results(id, url, hash) leaves exactly
\* (url, hash) as the final results of id and the results of no other escrow
\* changed; a failed call leaves all final results as they were; of two
\* successful calls in a row the pair of the second is the one stored.
C22_FinalResultsRoundTrip ==
    \A who \in Callers, id \in CallIds :
        \A p \in ResultArgs \X ResultArgs :
            LET r == store_final_results(State, who, id, p[1], p[2])
            IN /\ r.res = "Ok" =>
                    /\ r.st.FinalResults =
                        Insert(FinalResults, id, ResultInfo(p[1], p[2]))
                    /\ r.st = [State EXCEPT !.FinalResults = r.st.FinalResults]
               /\ r.res # "Ok" => r.st.FinalResults = FinalResults
               /\ \A q \in ResultArgs \X ResultArgs :
                    LET r2 == store_final_results(r.st, who, id, q[1], q[2])
                    IN r2.st.FinalResults =
                        IF r2.res = "Ok"
                        THEN Insert(FinalResults, id, ResultInfo(q[1], q[2]))
                        ELSE r.st.FinalResults

\* escrow 0 has final results stored, and a further call with another pair
\* succeeds and replaces them, while one with too long a url fails and keeps
\* them
C22_Witness ==
    /\ 0 \in DOMAIN FinalResults
    /\ FinalResults[0] = ResultInfo(Bytes(33, 1), Bytes(33, 1))
    /\ LET r == store_final_results(State, 1, 0, Bytes(34, StringLimit),
                                    Bytes(33, 1))
       IN /\ r.res = "Ok"
          /\ r.st.FinalResults[0]
                = ResultInfo(Bytes(34, StringLimit), Bytes(33, 1))
    /\ store_final_results(State, 1, 0, Bytes(33, StringLimit + 1),
                           Bytes(33, 1)).res = "StringSize"


\* the condition under which the results calls succeed
ResultsCallAllowed(who, id, url, hash) ==
    /\ Len(url) <= StringLimit
    /\ Len(hash) <= StringLimit
    /\ <<id, who>> \in TrustedHandlers
    /\ id \in DOMAIN Escrows
    /\ Escrows[id].status \in {"Pending", "Partial"}
    /\ Escrows[id].end_time > Now

ResultsErrors ==
    {"StringSize", "NonTrustedAccount", "MissingEscrow", "EscrowExpired",
     "EscrowClosed"}

---------------------------------------------------------------------------
(* C24: the escrows of a factory *)

\* C24: the escrow list of every factory has at most MAX_ESCROWS_PER_FACTORY
\* entries.
C24_FactoryBound ==
    \A f \in DOMAIN EscrowFactory :
        Len(EscrowFactory[f]) <= MAX_ESCROWS_PER_FACTORY

\* what create does: a list of up to MAX_ESCROWS_PER_FACTORY entries takes one
\* more, a list of more fails the call with FactoryOutOfBounds
C24_FactoryBoundOfCode ==
    /\ \A f \in DOMAIN EscrowFactory :
            Len(EscrowFactory[f]) <= MAX_ESCROWS_PER_FACTORY + 1
    /\ \A c \in CreateCalls :
            c.factory \in DOMAIN EscrowFactory =>
                (c.r.res = "FactoryOutOfBounds" <=>
                    /\ Len(c.url) <= StringLimit
                    /\ Len(c.hash) <= StringLimit
                    /\ Len(EscrowFactory[c.factory]) > MAX_ESCROWS_PER_FACTORY)

\* a factory with MAX_ESCROWS_PER_FACTORY + 1 escrows, where create fails
C24_Full ==
    /\ 0 \in DOMAIN EscrowFactory
    /\ Len(EscrowFactory[0]) = MAX_ESCROWS_PER_FACTORY + 1
    /\ create(State, Funder, Bytes(24, StringLimit), Bytes(24, StringLimit),
              0, 3, 4, 10, 10).res = "FactoryOutOfBounds"

---------------------------------------------------------------------------
(* C25: do_transfer_bulk *)

\* the arguments do_transfer_bulk is checked on: the funder or the custodial
\* account as the source, up to BulkAccountsLimit + 1 recipients, value lists
\* of other lengths than the recipients, sums up to, at and above
\* BulkBalanceLimit, and sums above the balance of the source
BulkFroms == {Funder, account_id_for(0)}

BulkTos ==
    {<<>>, <<5>>, <<5, 6>>, <<5, 5>>, <<5, 1>>, <<5, 6, 7>>,
     [i \in 1..(BulkAccountsLimit + 1) |-> 5]}

BulkValues ==
    {<<>>, <<80>>, <<80, 30>>, <<30, 80>>, <<80, 30, 10>>, <<BulkBalanceLimit>>,
     <<BulkBalanceLimit - 499, 499>>, <<BulkBalanceLimit - 499, 500>>,
     <<BalanceMax, 1>>}

RECURSIVE Applied(_, _, _, _, _)
\* the storage after the first k transfers of the list
Applied(s, from, tos, values, k) ==
    IF k = 0 THEN s
    ELSE Currency_transfer(Applied(s, from, tos, values, k - 1),
                           from, tos[k], values[k]).st

\* the outcome of transfer k of the list, after the k - 1 before it
Outcome(s, from, tos, values, k) ==
    Currency_transfer(Applied(s, from, tos, values, k - 1),
                      from, tos[k], values[k]).res

\* what the list credits to account a
Credited(tos, values, a) ==
    Sum([i \in 1..Len(tos) |-> IF tos[i] = a THEN values[i] ELSE 0])

\* C25: do_transfer_bulk fails with TooManyTos for more than BulkAccountsLimit
\* recipients, else with MismatchBulkTransfer for lists of different lengths,
\* else with TransferTooBig for values that sum to more than BulkBalanceLimit,
\* each time with every balance as it was; otherwise it makes the transfers
\* of the list one by one in list order (up to the first that fails), and when
\* all succeed the source has paid the sum and every recipient has received
\* its values.
C25_TransferBulk ==
    \A from \in BulkFroms, tos \in BulkTos, values \in BulkValues :
        LET r == do_transfer_bulk(State, from, tos, values)
            n == Len(tos)
            failing == {k \in 1..n :
                            Outcome(State, from, tos, values, k) # "Ok"}
        IN IF Len(tos) > BulkAccountsLimit
           THEN r = Err("TooManyTos", State)
           ELSE IF Len(tos) # Len(values)
           THEN r = Err("MismatchBulkTransfer", State)
           ELSE IF Sum(values) > BulkBalanceLimit
           THEN r = Err("TransferTooBig", State)
           ELSE IF failing = {}
           THEN /\ r = Ok(Applied(State, from, tos, values, n))
                /\ \A a \in Accounts :
                    r.st.Balances[a] =
                        Balances[a] + Credited(tos, values, a)
                            - (IF a = from THEN Sum(values) ELSE 0)
           ELSE LET k == CHOOSE x \in failing : \A y \in failing : x <= y
                IN r = Err(Outcome(State, from, tos, values, k),
                           Applied(State, from, tos, values, k - 1))

\* the custodial account holds FundAmount: a list that sums to more than
\* BulkBalanceLimit fails with TransferTooBig, a list within all limits whose
\* second value the account cannot pay credits the first recipient and fails,
\* and the same values in the other order fail at the first transfer
C25_Witness ==
    /\ Balances[account_id_for(0)] = FundAmount
    /\ do_transfer_bulk(State, account_id_for(0), <<5, 6>>,
                        <<BulkBalanceLimit - 499, 500>>).res = "TransferTooBig"
    /\ LET r == do_transfer_bulk(State, account_id_for(0), <<5, 6>>, <<80, 30>>)
       IN /\ r.res = "InsufficientBalance"
          /\ r.st.Balances[5] = Balances[5] + 80
          /\ r.st.Balances[6] = Balances[6]
    /\ LET r == do_transfer_bulk(State, account_id_for(0), <<5, 6>>, <<30, 80>>)
       IN /\ r.res = "InsufficientBalance"
          /\ r.st.Balances[5] = Balances[5] + 30
    /\ do_transfer_bulk(State, Funder, <<5, 6>>, <<80, 30>>).res = "Ok"

---------------------------------------------------------------------------
(* C26: the place of the trust check *)

\* the privileged calls on escrow id by who whose url and hash are within
\* StringLimit
WellFormedCalls(who, id) ==
    {c \in PrivilegedCalls(who, id) :
        c.op \in {"note_intermediate_results", "store_final_results"} =>
            (Len(c.args[1]) <= StringLimit /\ Len(c.args[2]) <= StringLimit)}

---------------------------------------------------------------------------
(* C27 - C29: hmtoken *)

\* the recipients and values the contracts of transfer_bulk are checked on
TokenTosArgs == TokenTos \cup {<<>>, <<2, 2>>, <<1, 3>>, <<2, 3, 5>>}

TokenValueArgs ==
    TokenValueLists \cup
        {<<>>, <<500, 500>>, <<HMTokenBulkBalanceLimit>>, <<0, 100>>,
         <<total_supply - 10, 10>>, <<total_supply - 10, 1>>,
         <<100, 0, 100>>, <<500, 500, 500>>}

\* C27: a transfer_bulk call within HMTokenBulkAccountsLimit, with as many
\* values as recipients and values that sum to more than
\* HMTokenBulkBalanceLimit, fails with TransferTooBig, changes no balance and
\* emits no event.
C27_TransferTooBig ==
    \A from \in TokenAccounts, tos \in TokenTosArgs, values \in TokenValueArgs :
        (/\ Len(tos) <= HMTokenBulkAccountsLimit
         /\ Len(tos) = Len(values)
         /\ Sum(values) > HMTokenBulkBalanceLimit) =>
            transfer_bulk(TokenState, from, tos, values, 42)
                = Err("TransferTooBig", TokenState)

\* what the code does: no transfer_bulk call fails with TransferTooBig, and
\* the call of account 1 with the values [500, 500] is carried out
C27_NeverTooBig ==
    \A from \in TokenAccounts, tos \in TokenTosArgs, values \in TokenValueArgs :
        transfer_bulk(TokenState, from, tos, values, 42).res # "TransferTooBig"

C27_Carried ==
    /\ HMTokenBalances[1] = total_supply
    /\ LET r == transfer_bulk(TokenState, 1, <<2, 3>>, <<500, 500>>, 42)
       IN /\ r.res = "Ok"
          /\ r.st.Balances[1] = 0
          /\ r.st.Balances[2] = 500
          /\ r.st.Balances[3] = 500
          /\ r.st.Events[3] = <<"BulkTransfer", 42, 2, 0>>


RECURSIVE Skipping(_, _, _, _, _)
\* the hmtoken storage and events after the first k pairs of the list were
\* attempted one after the other (a failed do_transfer leaves them as they
\* were)
Skipping(s, from, tos, values, k) ==
    IF k = 0 THEN s
    ELSE do_transfer(Skipping(s, from, tos, values, k - 1),
                     from, tos[k], values[k]).st

\* the pairs of the list whose transfer is applied
Succeeded(s, from, tos, values) ==
    {k \in 1..Len(tos) :
        do_transfer(Skipping(s, from, tos, values, k - 1),
                    from, tos[k], values[k]).res = "Ok"}

\* the Transferred events among the events
TransferredEvents(events) == SelectSeq(events, LAMBDA e : e[1] = "Transferred")

\* C28: a transfer_bulk call with at most HMTokenBulkAccountsLimit recipients
\* and as many values as recipients returns Ok; the pairs are attempted in
\* list order, a pair fails exactly when its value is 0 or above the balance
\* the sender has left, and a failed pair neither undoes the pairs before it
\* nor stops the ones after it; the last event is
\* BulkTransfer(txId, successes, failures) with successes + failures the
\* number of pairs and successes the number of transfers applied.
C28_BulkTransferOutcome ==
    \A from \in TokenAccounts, tos \in TokenTosArgs, values \in TokenValueArgs :
        (Len(tos) <= HMTokenBulkAccountsLimit /\ Len(tos) = Len(values)) =>
            LET r == transfer_bulk(TokenState, from, tos, values, 42)
                n == Len(tos)
                ok == Succeeded(TokenState, from, tos, values)
                last == r.st.Events[Len(r.st.Events)]
            IN /\ r.res = "Ok"
               /\ r.st.Balances = Skipping(TokenState, from, tos, values, n).Balances
               /\ \A k \in 1..n :
                    k \notin ok <=>
                        \/ values[k] = 0
                        \/ Skipping(TokenState, from, tos, values, k - 1)
                                .Balances[from] < values[k]
               /\ last = <<"BulkTransfer", 42, Cardinality(ok), n - Cardinality(ok)>>
               /\ last[3] + last[4] = n
               /\ Len(TransferredEvents(r.st.Events)) = last[3]
               /\ Len(r.st.Events) = last[3] + 1

\* account 2 holds 100 and account 1 holds 900: of the two transfers of 100 by
\* account 2 the first is applied and the second fails, and of the values
\* [100, 0, 100] of account 1 the second fails and the third is applied
C28_Witness ==
    /\ HMTokenBalances[2] = 100
    /\ HMTokenBalances[1] = 900
    /\ LET r == transfer_bulk(TokenState, 2, <<1, 3>>, <<100, 100>>, 42)
       IN /\ r.res = "Ok"
          /\ r.st.Events[2] = <<"BulkTransfer", 42, 1, 1>>
          /\ r.st.Balances[1] = 1000
          /\ r.st.Balances[3] = 0
    /\ LET r == transfer_bulk(TokenState, 1, <<2, 3, 5>>, <<100, 0, 100>>, 42)
       IN /\ r.res = "Ok"
          /\ r.st.Events[3] = <<"BulkTransfer", 42, 2, 1>>
          /\ r.st.Balances[3] = 0
          /\ r.st.Balances[5] = 100


RECURSIVE TotalOf(_, _)
\* the sum of the balances of the accounts in S
TotalOf(balances, S) ==
    IF S = {} THEN 0
    ELSE LET a == CHOOSE x \in S : TRUE
         IN balances[a] + TotalOf(balances, S \ {a})

\* the values the contract of transfer is checked on
TokenValueSpace == TokenValues \cup {1, 10, total_supply, total_supply + 1}

\* C29: transfer fails with AmountZero for the value 0 and with BalanceLow for
\* a value above the sender's balance, changing nothing; otherwise it takes
\* the value from the sender and gives it to the recipient (a transfer to
\* oneself leaves the balance as it was) and emits Transferred; every transfer
\* and every transfer_bulk leaves the sum of all balances as it was.
C29_Transfer ==
    /\ TotalOf(HMTokenBalances, TokenAccounts) = total_supply
    /\ \A from \in TokenAccounts, to \in TokenAccounts, value \in TokenValueSpace :
        LET r == transfer(TokenState, from, to, value)
        IN /\ value = 0 => r = Err("AmountZero", TokenState)
           /\ HMTokenBalances[from] < value => r = Err("BalanceLow", TokenState)
           /\ (value # 0 /\ HMTokenBalances[from] >= value) =>
                /\ r.res = "Ok"
                /\ r.st.Events = <<<<"Transferred", from, to, value>>>>
                /\ \A a \in TokenAccounts :
                    r.st.Balances[a] =
                        HMTokenBalances[a]
                            - (IF a = from THEN value ELSE 0)
                            + (IF a = to THEN value ELSE 0)
           /\ TotalOf(r.st.Balances, TokenAccounts)
                = TotalOf(HMTokenBalances, TokenAccounts)
    /\ \A from \in TokenAccounts, tos \in TokenTosArgs, values \in TokenValueArgs :
        TotalOf(transfer_bulk(TokenState, from, tos, values, 42).st.Balances,
                TokenAccounts)
            = TotalOf(HMTokenBalances, TokenAccounts)

\* account 2 holds 100 and account 3 nothing: 2 can pay 100 to itself and to 3
\* but not 500, 3 can pay nothing, and a transfer of 0 fails for both
C29_Witness ==
    /\ HMTokenBalances[2] = 100
    /\ HMTokenBalances[3] = 0
    /\ transfer(TokenState, 2, 2, 100).res = "Ok"
    /\ transfer(TokenState, 2, 2, 100).st.Balances = HMTokenBalances
    /\ transfer(TokenState, 2, 3, 100).st.Balances[3] = 100
    /\ transfer(TokenState, 2, 3, 100).st.Balances[2] = 0
    /\ transfer(TokenState, 2, 3, 500).res = "BalanceLow"
    /\ transfer(TokenState, 3, 2, 1).res = "BalanceLow"
    /\ transfer(TokenState, 3, 2, 0).res = "AmountZero"
    /\ transfer(TokenState, 2, 3, 0).res = "AmountZero"

---------------------------------------------------------------------------
(* C30: kvstore *)

\* the keys the reads of the contract range over: those of the calls and one
\* that is never written
KVReadKeys == KVKeys \cup {Bytes(3, 4)}

\* C30: set(key, value) by account acc with key and value within
\* KVStoreStringLimit returns Ok, emits Stored(acc, key, value) and makes
\* get(acc, key) the value, also when a value was stored before and when
\* another set follows (get is then the value written last); with a longer
\* key it fails with KeyTooLong, with a longer value with ValueTooLong, and
\* the storage is as it was; a set of one account changes get of no other
\* account and of no other key.
C30_SetGet ==
    \A acc \in KVAccounts, key \in KVKeys, value \in KVValues :
        LET r == set(KVState, acc, key, value)
            valid == Len(key) <= KVStoreStringLimit
                        /\ Len(value) <= KVStoreStringLimit
        IN /\ r.res = "Ok" <=> valid
           /\ valid => /\ get(r.st, acc, key) = value
                       /\ r.st.Events = <<<<"Stored", acc, key, value>>>>
           /\ Len(key) > KVStoreStringLimit => r = Err("KeyTooLong", KVState)
           /\ (Len(key) <= KVStoreStringLimit /\ Len(value) > KVStoreStringLimit)
                => r = Err("ValueTooLong", KVState)
           /\ \A b \in KVAccounts, k \in KVReadKeys :
                (b # acc \/ k # key) => get(r.st, b, k) = get(KVState, b, k)
           /\ \A b \in KVAccounts, v \in KVValues :
                LET r2 == set(r.st, b, key, v)
                IN get(r2.st, acc, key) =
                    IF b = acc /\ r2.res = "Ok" THEN v
                    ELSE IF valid THEN value
                    ELSE get(KVState, acc, key)

\* accounts 1 and 42 hold different values under the same key: a set of
\* account 1 replaces its value and leaves that of account 42, and a set with
\* too long a value fails
C30_Witness ==
    /\ get(KVState, 1, Bytes(1, 4)) = Bytes(5, 4)
    /\ get(KVState, 42, Bytes(1, 4)) = Bytes(6, KVStoreStringLimit)
    /\ LET r == set(KVState, 1, Bytes(1, 4), Bytes(6, KVStoreStringLimit))
       IN /\ r.res = "Ok"
          /\ get(r.st, 1, Bytes(1, 4)) = Bytes(6, KVStoreStringLimit)
          /\ get(r.st, 42, Bytes(1, 4)) = Bytes(6, KVStoreStringLimit)
    /\ LET r == set(KVState, 42, Bytes(1, 4), <<>>)
       IN /\ r.res = "Ok"
          /\ get(r.st, 42, Bytes(1, 4)) = <<>>
          /\ get(r.st, 1, Bytes(1, 4)) = Bytes(5, 4)
    /\ set(KVState, 1, Bytes(1, 4), Bytes(21, KVStoreStringLimit + 1)).res
            = "ValueTooLong"
    /\ set(KVState, 1, Bytes(21, KVStoreStringLimit + 1), Bytes(5, 4)).res
            = "KeyTooLong"

---------------------------------------------------------------------------
(* C31: a failing transfer of do_transfer_bulk *)

\* the transfers of the list that fail when the list is carried out one by one
FailingTransfers(from, tos, values) ==
    {k \in 1..Len(tos) : Outcome(State, from, tos, values, k) # "Ok"}

\* the lists that pass the three checks of do_transfer_bulk and hold a
\* transfer that fails
ListsFailingLate(from) ==
    {p \in BulkTos \X BulkValues :
        /\ Len(p[1]) <= BulkAccountsLimit
        /\ Len(p[1]) = Len(p[2])
        /\ Sum(p[2]) <= BulkBalanceLimit
        /\ FailingTransfers(from, p[1], p[2]) # {}}

\* C31: when a transfer of the list fails, do_transfer_bulk returns the error
\* of the first transfer that fails; the transfers before it stay applied and
\* those after it are not made; inside with_transaction_result, as in
\* bulk_payout, the storage is the one before the call.
C31_FirstFailure ==
    /\ \A from \in BulkFroms :
        \A p \in ListsFailingLate(from) :
            LET tos == p[1]
                values == p[2]
                failing == FailingTransfers(from, tos, values)
                k == CHOOSE x \in failing : \A y \in failing : x <= y
                r == do_transfer_bulk(State, from, tos, values)
            IN /\ r.res = Outcome(State, from, tos, values, k)
               /\ \A a \in Accounts :
                    r.st.Balances[a] =
                        Balances[a]
                            + Credited(SubSeq(tos, 1, k - 1),
                                       SubSeq(values, 1, k - 1), a)
                            - (IF a = from THEN Sum(SubSeq(values, 1, k - 1))
                               ELSE 0)
               /\ with_transaction_result(State, r) = Err(r.res, State)
    /\ \A who \in Callers, id \in CallIds, a \in PayoutArgs :
        LET inner == bulk_payout_closure(State, who, id, a.recipients, a.amounts)
        IN inner.res # "Ok" =>
            bulk_payout(State, who, id, a.recipients, a.amounts)
                = Err(inner.res, State)

\* the custodial account holds FundAmount and is asked for 80, 30 and 10: the
\* 80 stay with the first recipient though the call fails, the 10 it could
\* still pay are not paid, and inside a transaction the 80 are back in the
\* custodial account; a payout of the same escrow that fails in
\* do_transfer_bulk leaves the fees where they were
C31_Witness ==
    /\ 0 \in DOMAIN Escrows
    /\ Balances[account_id_for(0)] = FundAmount
    /\ LET r == do_transfer_bulk(State, account_id_for(0), <<5, 6, 7>>,
                                 <<80, 30, 10>>)
       IN /\ r.res = "InsufficientBalance"
          /\ r.st.Balances[5] = Balances[5] + 80
          /\ r.st.Balances[7] = Balances[7]
          /\ r.st.Balances[account_id_for(0)] = FundAmount - 80
          /\ with_transaction_result(State, r).st.Balances = Balances
    /\ LET inner == bulk_payout_closure(State, 1, 0, <<5, 6, 7>>, <<50, 50>>)
       IN /\ inner.res = "MismatchBulkTransfer"
          /\ inner.st.Balances[3] > Balances[3]
          /\ bulk_payout(State, 1, 0, <<5, 6, 7>>, <<50, 50>>).st.Balances
                = Balances

---------------------------------------------------------------------------
(* C32: the sum of all balances *)

\* the sum of the free balances of all accounts in storage s
TotalBalance(s) == TotalOf(s.Balances, Accounts)

\* C32: the balances of all accounts add up to the same sum in every
\* reachable state, and every call of an escrow dispatchable (create,
\* create_factory, add_trusted_handlers, abort, cancel, complete, the results
\* calls, bulk_payout), whether it succeeds, fails or is rolled back, returns
\* balances with the sum they had before; so does the closure of bulk_payout
\* before its rollback.
C32_TotalPreserved ==
    /\ TotalBalance(State) = GenesisBalance
    /\ \A c \in AllCalls : TotalBalance(c.r.st) = TotalBalance(State)
    /\ \A who \in Callers, id \in CallIds, a \in PayoutArgs :
        TotalBalance(bulk_payout_closure(State, who, id, a.recipients,
                                         a.amounts).st)
            = TotalBalance(State)

\* a partly paid escrow: a further payout moves balance to the recipient and
\* the oracles, a payout with a recipient too many is rolled back after its
\* fees were moved, and an abort refunds the rest to the canceller
C32_Witness ==
    /\ 0 \in DOMAIN Escrows
    /\ Escrows[0].status = "Partial"
    /\ Balances[account_id_for(0)] = 50
    /\ Balances[5] > 0
    /\ LET r == bulk_payout(State, 1, 0, <<5>>, <<50>>)
       IN /\ r.res = "Ok"
          /\ r.st.Balances[5] > Balances[5]
          /\ r.st.Balances[3] > Balances[3]
          /\ r.st.Balances[account_id_for(0)] = 0
    /\ bulk_payout_closure(State, 1, 0, <<5, 6, 7>>, <<25, 25>>).st.Balances
            # Balances
    /\ bulk_payout(State, 1, 0, <<5, 6, 7>>, <<25, 25>>).res
            = "MismatchBulkTransfer"
    /\ LET r == abort(State, 1, 0)
       IN /\ r.res = "Ok"
          /\ r.st.Balances[1] = Balances[1] + 50

---------------------------------------------------------------------------
(* C33: the ids without an escrow *)

\* the error a privileged call must end with on an id without an escrow, by
\* the claim
MissingIdError(op) ==
    IF op \in {"add_trusted_handlers", "note_intermediate_results",
               "store_final_results"}
    THEN "NonTrustedAccount"
    ELSE "MissingEscrow"

---------------------------------------------------------------------------
(* C34: the escrow lists of the factories *)

\* the stored escrows whose factory field is f
EscrowsOf(f) == {id \in DOMAIN Escrows : Escrows[id].factory = f}

\* seq is strictly ascending
Ascending(seq) == \A i \in 1..(Len(seq) - 1) : seq[i] < seq[i + 1]

\* C34: every stored escrow names a stored factory; the list of every factory
\* is strictly ascending and holds exactly the ids of the stored escrows that
\* name the factory; the binary search of abort finds every stored id, so no
\* abort of a stored escrow returns MissingEscrow, and a successful abort takes
\* exactly its id out of the list.
C34_FactoryLists ==
    /\ \A id \in DOMAIN Escrows : Escrows[id].factory \in DOMAIN EscrowFactory
    /\ \A f \in DOMAIN EscrowFactory :
        /\ Ascending(EscrowFactory[f])
        /\ Range(EscrowFactory[f]) = EscrowsOf(f)
    /\ \A id \in DOMAIN Escrows :
        LET f == Escrows[id].factory
            list == EscrowFactory[f]
        IN /\ binary_search(list, 1, Len(list), id) # 0
           /\ list[binary_search(list, 1, Len(list), id)] = id
           /\ \A who \in Callers :
                LET r == abort(State, who, id)
                IN /\ r.res # "MissingEscrow"
                   /\ r.res = "Ok" =>
                        /\ Ascending(r.st.EscrowFactory[f])
                        /\ Range(r.st.EscrowFactory[f]) = EscrowsOf(f) \ {id}
                        /\ Len(r.st.EscrowFactory[f]) = Len(list) - 1
                   /\ r.res # "Ok" => r.st = State

\* escrow 0 was aborted and the factory filled up after it: the list runs from
\* 1 to MAX_ESCROWS_PER_FACTORY + 1, and the aborts of its first, a middle and
\* its last escrow succeed
C34_Witness ==
    /\ 0 \in DOMAIN EscrowFactory
    /\ EscrowFactory[0] = [i \in 1..(MAX_ESCROWS_PER_FACTORY + 1) |-> i]
    /\ abort(State, Funder, 1).res = "Ok"
    /\ abort(State, Funder, 11).res = "Ok"
    /\ abort(State, Funder, MAX_ESCROWS_PER_FACTORY + 1).res = "Ok"
    /\ abort(State, Funder, 0).res = "MissingEscrow"

---------------------------------------------------------------------------
(* C35: one escrow and the others *)

\* what storage s holds for escrow id: the record, the trust entries, the
\* handler count and the final results
EscrowView(s, id) ==
    [record |-> IF id \in DOMAIN s.Escrows THEN <<s.Escrows[id]>> ELSE <<>>,
     trusted |-> TrustEntries(s, id),
     count |-> IF id \in DOMAIN s.HandlersCount
               THEN <<s.HandlersCount[id]>> ELSE <<>>,
     results |-> IF id \in DOMAIN s.FinalResults
                 THEN <<s.FinalResults[id]>> ELSE <<>>]

\* the custodial account of escrow id
CustodialAccount(id) ==
    IF id \in DOMAIN Escrows THEN Escrows[id].account ELSE account_id_for(id)

\* C35: a privileged call on escrow a leaves the record, the status, the
\* trust entries, the handler count and the final results of every other
\* escrow b as they were and lowers the balance of no account but the
\* custodial account of a; a create leaves all of that as it was for every
\* escrow stored before; and no privileged call on b by a caller that is
\* trusted for a but not for b succeeds.
C35_Isolation ==
    /\ \A who \in Callers, a \in CallIds :
        \A c \in PrivilegedCalls(who, a) :
            /\ \A b \in IdSpace \ {a} :
                    EscrowView(c.r.st, b) = EscrowView(State, b)
            /\ \A x \in Accounts \ {CustodialAccount(a)} :
                    c.r.st.Balances[x] >= Balances[x]
    /\ \A c \in CreateCalls :
        /\ \A b \in DOMAIN Escrows : EscrowView(c.r.st, b) = EscrowView(State, b)
        /\ c.r.st.Balances = Balances
    /\ \A who \in Callers, a \in DOMAIN Escrows, b \in CallIds :
        (/\ b # a
         /\ <<a, who>> \in TrustedHandlers
         /\ <<b, who>> \notin TrustedHandlers) =>
            \A c \in PrivilegedCalls(who, b) : c.r.res # "Ok"

\* escrows 0 and 1 are stored and funded, account 1 is trusted for 0 only and
\* account 8 for 1 only: the cancel of 0 by account 1 succeeds and leaves
\* escrow 1 Pending with its handlers, its cancel of 1 fails
C35_Witness ==
    /\ DOMAIN Escrows = {0, 1}
    /\ Balances[Escrows[0].account] > 0
    /\ <<0, 1>> \in TrustedHandlers /\ <<1, 1>> \notin TrustedHandlers
    /\ <<1, 8>> \in TrustedHandlers /\ <<0, 8>> \notin TrustedHandlers
    /\ 1 \in DOMAIN FinalResults
    /\ LET r == cancel(State, 1, 0)
       IN /\ r.res = "Ok"
          /\ r.st.Escrows[0].status = "Cancelled"
          /\ EscrowView(r.st, 1) = EscrowView(State, 1)
    /\ cancel(State, 1, 1).res = "NonTrustedAccount"
    /\ abort(State, 8, 0).res = "NonTrustedAccount"

---------------------------------------------------------------------------
(* C36: the custodial balance of a closed escrow *)

\* the stored escrows that are Paid or Complete
PaidOrComplete == {id \in DOMAIN Escrows : Escrows[id].status \in {"Paid", "Complete"}}

\* the privileged calls of both callers on every id
AllPrivilegedCalls ==
    UNION {PrivilegedCalls(x[1], x[2]) : x \in Callers \X CallIds}

\* C36: while an escrow is Paid or Complete, cancel and abort of it by a
\* trusted caller fail with EscrowClosed, every bulk_payout of it fails, and no
\* call of an escrow dispatchable, on whichever id, lowers the balance of its
\* custodial account.
C36_ClosedKeepsBalance ==
    \A id \in PaidOrComplete :
        /\ \A who \in Callers :
            /\ <<id, who>> \in TrustedHandlers =>
                /\ cancel(State, who, id).res = "EscrowClosed"
                /\ abort(State, who, id).res = "EscrowClosed"
            /\ \A c \in PrivilegedCalls(who, id) :
                    c.op = "bulk_payout" => c.r.res # "Ok"
        /\ \A c \in AllPrivilegedCalls :
                c.r.st.Balances[Escrows[id].account]
                    >= Balances[Escrows[id].account]
        /\ \A c \in CreateCalls :
                c.r.st.Balances[Escrows[id].account]
                    >= Balances[Escrows[id].account]

\* the part of C36 the code keeps: the calls on the Paid or Complete escrow
\* itself fail as the claim says and lower no balance
C36_OwnCallsKeepBalance ==
    \A id \in PaidOrComplete :
        \A who \in Callers :
            /\ <<id, who>> \in TrustedHandlers =>
                /\ cancel(State, who, id).res = "EscrowClosed"
                /\ abort(State, who, id).res = "EscrowClosed"
            /\ \A c \in PrivilegedCalls(who, id) :
                /\ c.op = "bulk_payout" => c.r.res # "Ok"
                /\ c.r.st.Balances = Balances

\* escrow 0 is Paid and its custodial account was funded again; escrow 1 is
\* Pending and has the same custodial account: the cancel of escrow 1 by its
\* creator empties the account of escrow 0
C36_Drained ==
    /\ DOMAIN Escrows = {0, 1}
    /\ Escrows[0].status = "Paid"
    /\ Escrows[1].status = "Pending"
    /\ Escrows[0].account = Escrows[1].account
    /\ Balances[Escrows[0].account] = FundAmount
    /\ cancel(State, Funder, 0).res = "EscrowClosed"
    /\ LET r == cancel(State, Funder, 1)
       IN /\ r.res = "Ok"
          /\ r.st.Escrows[0].status = "Paid"
          /\ r.st.Balances[Escrows[0].account] = 0

=============================================================================
